---- MODULE Spec2Model ----
(***************************************************************************)
(* Account (src/MTBS/src/account.cpp): balance, transaction history and    *)
(* the per-account std::mutex, driven by threads that call the public      *)
(* operations deposit, withdraw, transfer, addTransaction and              *)
(* clearTransactionHistory.                                                *)
(*                                                                         *)
(* Amounts are integers (the code uses double; only finite amounts are     *)
(* modelled).  Account numbers are integers, compared with <, which stands *)
(* for the lexicographic order on the strings.                             *)
(***************************************************************************)
EXTENDS Integers, Sequences, FiniteSets, TLC

\* ------------------------------------------------------------------ bounds
MaxAmount == 1
MaxInitial == 1
MaxCapacity == 2
MaxQueueCalls == 3
MaxSpuriousWakes == 1
MaxPoolCalls == 4
MaxBankCalls == 4
MaxAccounts == 1
MaxAsyncCalls == 3

\* Two caller threads and two accounts; a run makes as many calls as there are
\* threads, spread over the threads in any way.
Threads == {1, 2}
Accounts == {1, 2}
Amounts == -1..MaxAmount
MaxCalls == Cardinality(Threads)
NoThread == 0
NoAccount == 0

\* What std::mutex::lock does when the calling thread already owns the mutex.
\* The behaviour is undefined; the builds differ:
\*   "deadlock"  the thread blocks for ever (pthread default mutex),
\*   "throw"     lock() throws std::system_error (error-checking mutex),
\*   "recursive" lock() counts the ownership and returns (owner-counting mutex).
MutexImpls == {"deadlock", "throw", "recursive"}

VARIABLES
    balance,             \* Account::balance, per account
    transactionHistory,  \* Account::transactionHistory, per account
    accountMutex,        \* Account::accountMutex, per account: [owner, count]
    transactionCounter,  \* Transaction::transactionCounter
    mutexImpl,           \* the build's std::mutex behaviour on a relock
    pc,                  \* per thread: position in the operation it runs
    call,                \* per thread: the operation and its arguments
    pending,             \* per thread: the Transaction passed to addTransaction
    addTo,               \* per thread: the account whose addTransaction runs
    after,               \* per thread: where addTransaction returns to
    retval,              \* per thread: the value the operation will return: "true", "false", "void"
    result,              \* per thread: how the last call ended: a returned value or "exception"
    entry,               \* per thread: balances and history lengths when the locks were taken
    relocks,             \* per thread: lock() calls on a mutex the thread owned, this call
    callsMade,           \* number of calls started
    opsUsed,             \* the operations called so far
    initialBalance,      \* the balances the accounts were constructed with
    oplog,               \* the calls that ended, in the order they ended
    \* WorkQueue (src/MTBS/src/thread_manager.cpp)
    queue,               \* WorkQueue::queue, front first
    maxSize,             \* WorkQueue::maxSize
    queueMutex,          \* WorkQueue::queueMutex: the thread that owns it
    notEmpty,            \* WorkQueue::notEmpty: the threads blocked in its wait()
    notFull,             \* WorkQueue::notFull: the threads blocked in its wait()
    qpc,                 \* per queue thread: position in enqueue / dequeue
    qitem,               \* per queue thread: the item passed to enqueue / received by dequeue
    waited,              \* per queue thread: the call has blocked in wait()
    inserted,            \* the items pushed, in the order of the pushes
    removed,             \* the items popped, in the order of the pops
    qcalls,              \* number of enqueue / dequeue calls started
    wakes,               \* number of waits that returned without a notification
    \* ThreadPool (src/MTBS/src/thread_manager.cpp)
    running,             \* ThreadPool::running
    taskQueue,           \* ThreadPool::taskQueue: the tasks it holds
    poolMutex,           \* ThreadPool::poolMutex: the thread that owns it
    condition,           \* ThreadPool::condition: the workers blocked in its wait()
    activeThreads,       \* ThreadPool::activeThreads
    workers,             \* ThreadPool::workers: the threads the vector holds
    wpc,                 \* per worker: position in workerFunction
    wtask,               \* per worker: the local variable task
    cpc,                 \* the client thread: position in start / submitTask / stop
    accepted,            \* the ids of the tasks for which submitTask returned true
    executed,            \* the ids of the tasks whose function has been called
    stopCalled,          \* stop() has been called
    queuedAtStop,        \* the ids of the tasks in the queue when stop() cleared running
    stopReturned,        \* a call of stop() has returned
    pcalls,              \* number of start / submitTask / stop calls made
    pwakes,              \* number of worker waits that returned without a notification
    cret,                \* the client thread: what its last call returned
    wanted,              \* per accepted task: the priority its submitter gave it
    \* Bank (src/MTBS/src/bank.cpp): the registry of accounts
    accounts,            \* Bank::accounts: account number -> the Account object it maps to
    accountsMutex,       \* Bank::accountsMutex: the thread that owns it
    obalance,            \* per Account object: Account::balance
    olock,               \* per Account object: the thread that owns Account::accountMutex
    nextObj,             \* number of Account objects constructed
    genCounter,          \* the static counter of BankUtils::generateAccountNumber
    generator,           \* which BankUtils::generateAccountNumber the build links
    bpc,                 \* per bank thread: position in the operation it runs
    bcall,               \* per bank thread: the operation and its arguments
    bnum,                \* per bank thread: the local accountNumber of createAccount
    bobj,                \* per bank thread: the Account object it has a shared_ptr to
    bsaw,                \* per bank thread: the balance closeAccount read
    remaining,           \* per bank thread: the accounts getActiveAccounts has yet to visit
    bret,                \* per bank thread: how its last call ended
    bcalls,              \* number of bank calls started
    removals,            \* every removal from the map: number, object, balance at that moment
    issued,              \* the numbers createAccount returned, with the object of each
    replaced,            \* the objects an insert of createAccount took out of the map
    closeLog,            \* the closeAccount calls that found their account and ended
    closedNumbers,       \* the numbers closeAccount has closed with success
    \* Bank (src/MTBS/src/bank.cpp): the asynchronous submission path
    systemRunning,       \* Bank::systemRunning
    apc,                 \* the caller's position in startBankingSystem / processTransactionAsync
    acalls,              \* number of processTransactionAsync calls started
    \* Bank (src/MTBS/src/bank.cpp): processDeposit, processWithdraw, processTransfer
    totalTransactions,       \* Bank::totalTransactions
    successfulTransactions,  \* Bank::successfulTransactions
    failedTransactions,      \* Bank::failedTransactions
    enableAuditLogging,      \* Bank::config.enableAuditLogging
    btarget,             \* per bank thread: the toAccount argument of processTransfer
    bobj2,               \* per bank thread: the Account object toAcc points to
    baudit,              \* per bank thread: calls of the transaction logger in its wrapper call
    wdone,               \* the wrapper calls that have ended, by the way they ended
    orecords             \* per Account object: the number of records in its history

accountVars == <<balance, transactionHistory, accountMutex, transactionCounter, mutexImpl,
                 pc, call, pending, addTo, after, retval, result, entry, relocks,
                 callsMade, opsUsed, initialBalance, oplog>>

queueVars == <<queue, maxSize, queueMutex, notEmpty, notFull, qpc, qitem, waited,
               inserted, removed, qcalls, wakes>>

poolVars == <<running, taskQueue, poolMutex, condition, activeThreads, workers, wpc, wtask,
              cpc, accepted, executed, stopCalled, queuedAtStop, stopReturned, pcalls, pwakes,
              cret, wanted>>

bankVars == <<accounts, accountsMutex, obalance, olock, nextObj, genCounter, generator,
              bpc, bcall, bnum, bobj, bsaw, remaining, bret, bcalls,
              removals, issued, replaced, closeLog, closedNumbers>>

asyncVars == <<systemRunning, apc, acalls>>

statVars == <<totalTransactions, successfulTransactions, failedTransactions>>

wrapVars == <<statVars, enableAuditLogging, btarget, bobj2, baudit, wdone, orecords>>

vars == <<accountVars, queueVars, poolVars, bankVars, asyncVars, wrapVars>>

\* What an operation of one component leaves alone: the other components.
outsideAccount == <<queueVars, poolVars, bankVars, asyncVars, wrapVars>>
outsideQueue == <<accountVars, poolVars, bankVars, asyncVars, wrapVars>>
outsidePool == <<accountVars, queueVars, bankVars, asyncVars, wrapVars>>
outsideBank == <<accountVars, queueVars, poolVars, asyncVars, wrapVars>>
outsideWrapper == <<accountVars, queueVars, poolVars, asyncVars>>

acctVars == <<balance, transactionHistory, transactionCounter>>
ghostVars == <<callsMade, opsUsed, initialBalance, mutexImpl>>

\* ------------------------------------------------------------ transactions
\* Transaction::Transaction: every field from the arguments, status PENDING.
Transaction(id, from, to, t, amt) ==
    [transactionId |-> id, fromAccount |-> from, toAccount |-> to,
     type |-> t, amount |-> amt, status |-> "PENDING"]

WithStatus(tx, s) == [tx EXCEPT !.status = s]

NoTransaction == Transaction(<<"", 0>>, NoAccount, NoAccount, "", 0)

\* Account::Account: the history of an account constructed with initialBalance;
\* n is the value of ++Transaction::transactionCounter.
InitialHistory(a, initial, n) ==
    IF initial > 0
    THEN << Transaction(<<"INIT", n>>, NoAccount, a, "DEPOSIT", initial) >>
    ELSE << >>

\* ------------------------------------------------------------------ mutex
Free == [owner |-> NoThread, count |-> 0]

Locked(m, t, a) == [m EXCEPT ![a] = [owner |-> t, count |-> 1]]

\* lock() by the owner on an owner-counting build.
Relocked(m, a) == [m EXCEPT ![a].count = @ + 1]

\* std::lock_guard::~lock_guard of addTransaction: one unlock().
Unlocked(m, a) ==
    IF m[a].count <= 1 THEN [m EXCEPT ![a] = Free]
    ELSE [m EXCEPT ![a].count = @ - 1]

\* Every guard of the thread is destroyed: at return, or while an exception unwinds.
ReleasedAll(m, t) == [a \in Accounts |-> IF m[a].owner = t THEN Free ELSE m[a]]

\* ---------------------------------------------------------------- threads
NoCall == [op |-> "none", acct |-> NoAccount, tgt |-> NoAccount, amount |-> 0]

Snapshot == [balance |-> balance,
             hlen |-> [a \in Accounts |-> Len(transactionHistory[a])]]

Appended(a, e) ==
    SubSeq(transactionHistory[a], e.hlen[a] + 1, Len(transactionHistory[a]))

\* The record of the call of thread t, which ends with outcome r after rl relocks.
LogEntry(t, r, rl) ==
    LET c == call[t]
        e == entry[t]
        tg == IF c.tgt = NoAccount THEN c.acct ELSE c.tgt
    IN  [thread |-> t, op |-> c.op, acct |-> c.acct, tgt |-> c.tgt, amount |-> c.amount,
         result |-> r,
         bal0 |-> e.balance[c.acct],
         dSelf |-> balance[c.acct] - e.balance[c.acct],
         dTgt |-> balance[tg] - e.balance[tg],
         newSelf |-> Appended(c.acct, e),
         newTgt |-> Appended(tg, e),
         relocks |-> rl]

\* The call of thread t ends with outcome r: a returned value, or "exception".
Ends(t, r, rl) ==
    /\ pc' = [pc EXCEPT ![t] = "idle"]
    /\ result' = [result EXCEPT ![t] = r]
    /\ oplog' = Append(oplog, LogEntry(t, r, rl))

\* A thread starts one of the public operations of an account.
Calls ==
    [op : {"deposit", "withdraw"}, acct : Accounts, tgt : {NoAccount}, amount : Amounts]
    \cup [op : {"transfer"}, acct : Accounts, tgt : Accounts, amount : Amounts]
    \cup [op : {"addTransaction", "clearTransactionHistory"}, acct : Accounts,
          tgt : {NoAccount}, amount : {0}]

FirstLabel(c) ==
    CASE c.op = "deposit" -> "deposit_lock"
      [] c.op = "withdraw" -> "withdraw_lock"
      [] c.op = "transfer" -> "transfer_lock1"
      [] c.op = "addTransaction" -> "addTransaction_lock"
      [] c.op = "clearTransactionHistory" -> "clear_lock"

Call(t) ==
    /\ pc[t] = "idle"
    /\ callsMade < MaxCalls
    /\ \E c \in Calls :
        /\ call' = [call EXCEPT ![t] = c]
        /\ pc' = [pc EXCEPT ![t] = FirstLabel(c)]
        /\ opsUsed' = opsUsed \cup {c.op}
        /\ pending' = [pending EXCEPT ![t] =
                IF c.op = "addTransaction"
                THEN Transaction(<<"EXT", 0>>, NoAccount, c.acct, "DEPOSIT", 0)
                ELSE NoTransaction]
        /\ addTo' = [addTo EXCEPT ![t] = c.acct]
    /\ after' = [after EXCEPT ![t] = "return"]
    /\ retval' = [retval EXCEPT ![t] = "void"]
    /\ result' = [result EXCEPT ![t] = "running"]
    /\ entry' = [entry EXCEPT ![t] = Snapshot]
    /\ relocks' = [relocks EXCEPT ![t] = 0]
    /\ callsMade' = callsMade + 1
    /\ UNCHANGED <<acctVars, accountMutex, mutexImpl, initialBalance, oplog, outsideAccount>>

\* An exception leaves the operation: the guards unlock, the call ends.
Unwinds(t) ==
    /\ accountMutex' = ReleasedAll(accountMutex, t)
    /\ relocks' = [relocks EXCEPT ![t] = @ + 1]
    /\ Ends(t, "exception", relocks[t] + 1)

\* lock() on mutex a by thread t, continuing at label next.  A thread that owns
\* the mutex already blocks for ever, gets an exception, or owns it once more.
Lock(t, a, next) ==
    \/ /\ accountMutex[a].owner = NoThread
       /\ accountMutex' = Locked(accountMutex, t, a)
       /\ pc' = [pc EXCEPT ![t] = next]
       /\ UNCHANGED <<result, oplog, relocks>>
    \/ /\ accountMutex[a].owner = t
       /\ mutexImpl = "recursive"
       /\ accountMutex' = Relocked(accountMutex, a)
       /\ pc' = [pc EXCEPT ![t] = next]
       /\ relocks' = [relocks EXCEPT ![t] = @ + 1]
       /\ UNCHANGED <<result, oplog>>
    \/ /\ accountMutex[a].owner = t
       /\ mutexImpl = "throw"
       /\ Unwinds(t)

\* The operation returns retval[t]; its lock guards go out of scope.
Return(t) ==
    /\ pc[t] = "return"
    /\ accountMutex' = ReleasedAll(accountMutex, t)
    /\ Ends(t, retval[t], relocks[t])
    /\ UNCHANGED <<acctVars, ghostVars, outsideAccount, call, pending, addTo, after,
                   retval, entry, relocks>>

\* ------------------------------------------------ Account::addTransaction
\* Account::addTransaction, line 202: lock_guard on the account's mutex.
AddTransactionLock(t) ==
    /\ pc[t] = "addTransaction_lock"
    /\ Lock(t, addTo[t], "addTransaction_push")
    /\ UNCHANGED <<acctVars, ghostVars, outsideAccount, call, pending, addTo, after, retval, entry>>

\* Account::addTransaction, lines 203-204: push_back, then the guard unlocks.
AddTransactionPush(t) ==
    /\ pc[t] = "addTransaction_push"
    /\ transactionHistory' = [transactionHistory EXCEPT
                                ![addTo[t]] = Append(@, pending[t])]
    /\ accountMutex' = Unlocked(accountMutex, addTo[t])
    /\ pc' = [pc EXCEPT ![t] = after[t]]
    /\ UNCHANGED <<balance, transactionCounter, ghostVars, outsideAccount, call, pending, addTo, after,
                   retval, result, entry, relocks, oplog>>

\* The caller of addTransaction holds the account's lock_guard and passes tx.
CallAddTransaction(t, a, tx, next) ==
    /\ pending' = [pending EXCEPT ![t] = tx]
    /\ addTo' = [addTo EXCEPT ![t] = a]
    /\ after' = [after EXCEPT ![t] = next]
    /\ pc' = [pc EXCEPT ![t] = "addTransaction_lock"]

\* A validation that lets an amount of zero through.
InvalidAmountStrict(amount) == amount < 0

\* lines 97, 119, 163: the validation of the amount.
InvalidAmount(amount) == amount <= 0

\* A funds check that looks at the balance alone.
InsufficientFundsNoAmount(bal, amount) == bal < 0

\* lines 124, 168: the funds check of withdraw and transfer.
InsufficientFunds(bal, amount) == bal < amount

\* ------------------------------------------------------- Account::deposit
\* line 94: lock_guard on accountMutex.
DepositLock(t) ==
    /\ pc[t] = "deposit_lock"
    /\ Lock(t, call[t].acct, "deposit_body")
    /\ UNCHANGED <<acctVars, ghostVars, outsideAccount, call, pending, addTo, after, retval, entry>>

\* lines 97-109: validate, add to the balance, build the record, call addTransaction.
DepositBody(t) ==
    LET a == call[t].acct
        amount == call[t].amount
        n == transactionCounter + 1
    IN  /\ pc[t] = "deposit_body"
        /\ entry' = [entry EXCEPT ![t] = Snapshot]
        /\ IF InvalidAmount(amount)
           THEN /\ retval' = [retval EXCEPT ![t] = "false"]
                /\ pc' = [pc EXCEPT ![t] = "return"]
                /\ UNCHANGED <<acctVars, pending, addTo, after>>
           ELSE /\ balance' = [balance EXCEPT ![a] = @ + amount]
                /\ transactionCounter' = n
                /\ retval' = [retval EXCEPT ![t] = "true"]
                /\ CallAddTransaction(t, a,
                      WithStatus(Transaction(<<"DEP", n>>, NoAccount, a, "DEPOSIT", amount),
                                 "SUCCESS"),
                      "return")
                /\ UNCHANGED transactionHistory
        /\ UNCHANGED <<accountMutex, ghostVars, outsideAccount, call, result, relocks, oplog>>

\* ------------------------------------------------------ Account::withdraw
\* line 116: lock_guard on accountMutex.
WithdrawLock(t) ==
    /\ pc[t] = "withdraw_lock"
    /\ Lock(t, call[t].acct, "withdraw_body")
    /\ UNCHANGED <<acctVars, ghostVars, outsideAccount, call, pending, addTo, after, retval, entry>>

\* lines 119-142: validate, check the funds, subtract, build the record.
WithdrawBody(t) ==
    LET a == call[t].acct
        amount == call[t].amount
        n == transactionCounter + 1
        tx == Transaction(<<"WTH", n>>, a, NoAccount, "WITHDRAW", amount)
    IN  /\ pc[t] = "withdraw_body"
        /\ entry' = [entry EXCEPT ![t] = Snapshot]
        /\ IF InvalidAmount(amount)
           THEN /\ retval' = [retval EXCEPT ![t] = "false"]
                /\ pc' = [pc EXCEPT ![t] = "return"]
                /\ UNCHANGED <<acctVars, pending, addTo, after>>
           ELSE IF InsufficientFunds(balance[a], amount)
           THEN /\ transactionCounter' = n
                /\ retval' = [retval EXCEPT ![t] = "false"]
                /\ CallAddTransaction(t, a, WithStatus(tx, "INSUFFICIENT_FUNDS"), "return")
                /\ UNCHANGED <<balance, transactionHistory>>
           ELSE /\ balance' = [balance EXCEPT ![a] = @ - amount]
                /\ transactionCounter' = n
                /\ retval' = [retval EXCEPT ![t] = "true"]
                /\ CallAddTransaction(t, a, WithStatus(tx, "SUCCESS"), "return")
                /\ UNCHANGED transactionHistory
        /\ UNCHANGED <<accountMutex, ghostVars, outsideAccount, call, result, relocks, oplog>>

\* ------------------------------------------------------ Account::transfer
\* A transfer that locks its own account first.
FirstLockedIsSource(self, target) == self

\* lines 154-160: the mutex of the account with the smaller number is locked first.
FirstLocked(self, target) == IF self < target THEN self ELSE target

SecondLocked(self, target) == IF self < target THEN target ELSE self

\* lines 155 / 158: the first lock() of transfer.
TransferLock1(t) ==
    /\ pc[t] = "transfer_lock1"
    /\ Lock(t, FirstLocked(call[t].acct, call[t].tgt), "transfer_lock2")
    /\ UNCHANGED <<acctVars, ghostVars, outsideAccount, call, pending, addTo, after, retval, entry>>

\* A transfer that takes one lock only.
TransferLock2Missing(t) ==
    /\ pc[t] = "transfer_lock2"
    /\ pc' = [pc EXCEPT ![t] = "transfer_body"]
    /\ UNCHANGED <<acctVars, accountMutex, ghostVars, outsideAccount, call, pending, addTo, after, retval,
                   result, entry, relocks, oplog>>

\* lines 156 / 159: the second lock() of transfer.
TransferLock2(t) ==
    /\ pc[t] = "transfer_lock2"
    /\ Lock(t, SecondLocked(call[t].acct, call[t].tgt), "transfer_body")
    /\ UNCHANGED <<acctVars, ghostVars, outsideAccount, call, pending, addTo, after, retval, entry>>

\* lines 179-180: balance -= amount; targetAccount.balance += amount.
Moved(bal, self, target, amount) ==
    LET debited == [bal EXCEPT ![self] = @ - amount]
    IN  [debited EXCEPT ![target] = @ + amount]

\* lines 163-189: validate, check the funds, move the amount, record the outgoing leg.
TransferBody(t) ==
    LET a == call[t].acct
        b == call[t].tgt
        amount == call[t].amount
        n == transactionCounter + 1
        tx == Transaction(<<"TRF", n>>, a, b, "TRANSFER", amount)
    IN  /\ pc[t] = "transfer_body"
        /\ entry' = [entry EXCEPT ![t] = Snapshot]
        /\ IF InvalidAmount(amount)
           THEN /\ retval' = [retval EXCEPT ![t] = "false"]
                /\ pc' = [pc EXCEPT ![t] = "return"]
                /\ UNCHANGED <<acctVars, pending, addTo, after>>
           ELSE IF InsufficientFunds(balance[a], amount)
           THEN /\ transactionCounter' = n
                /\ retval' = [retval EXCEPT ![t] = "false"]
                /\ CallAddTransaction(t, a, WithStatus(tx, "INSUFFICIENT_FUNDS"), "return")
                /\ UNCHANGED <<balance, transactionHistory>>
           ELSE /\ balance' = Moved(balance, a, b, amount)
                /\ transactionCounter' = n
                /\ retval' = [retval EXCEPT ![t] = "true"]
                /\ CallAddTransaction(t, a, WithStatus(tx, "SUCCESS"), "transfer_incoming")
                /\ UNCHANGED transactionHistory
        /\ UNCHANGED <<accountMutex, ghostVars, outsideAccount, call, result, relocks, oplog>>

\* A transfer that gives the destination no record.
TransferIncomingSkipped(t) ==
    /\ pc[t] = "transfer_incoming"
    /\ pc' = [pc EXCEPT ![t] = "return"]
    /\ UNCHANGED <<acctVars, accountMutex, ghostVars, outsideAccount, call, pending, addTo, after, retval,
                   result, entry, relocks, oplog>>

\* lines 192-195: the incoming record, same id, given to targetAccount.addTransaction.
TransferIncoming(t) ==
    /\ pc[t] = "transfer_incoming"
    /\ CallAddTransaction(t, call[t].tgt, pending[t], "return")
    /\ UNCHANGED <<acctVars, accountMutex, ghostVars, outsideAccount, call, retval, result, entry,
                   relocks, oplog>>

\* --------------------------------------- Account::clearTransactionHistory
\* line 208: lock_guard on accountMutex.
ClearLock(t) ==
    /\ pc[t] = "clear_lock"
    /\ Lock(t, call[t].acct, "clear_body")
    /\ UNCHANGED <<acctVars, ghostVars, outsideAccount, call, pending, addTo, after, retval, entry>>

\* line 209: transactionHistory.clear().
ClearBody(t) ==
    /\ pc[t] = "clear_body"
    /\ transactionHistory' = [transactionHistory EXCEPT ![call[t].acct] = << >>]
    /\ pc' = [pc EXCEPT ![t] = "return"]
    /\ UNCHANGED <<balance, transactionCounter, accountMutex, ghostVars, outsideAccount, call, pending,
                   addTo, after, retval, result, entry, relocks, oplog>>

\* ============================================================== WorkQueue
\* WorkQueue (src/MTBS/src/thread_manager.cpp): a std::queue guarded by
\* queueMutex, with the condition variables notFull and notEmpty.  Threads call
\* enqueue and dequeue in any mix.
QueueThreads == {1, 2, 3}

\* WorkQueue::WorkItem; the work is named by the number of the call that made it.
WorkItem(w) == [work |-> w]

NoItem == WorkItem(0)

\* A wait predicate that lets one entry too many in.
HasRoomOffByOne(q, max) == Len(q) <= max

\* line 137: the predicate of notFull.wait, queue.size() < maxSize.
HasRoom(q, max) == Len(q) < max

\* line 150: the predicate of notEmpty.wait, !queue.empty().
HasEntry(q) == q # << >>

\* An accessor that reads the newest entry.
Back(q) == q[Len(q)]

\* line 152: queue.front().
Front(q) == Head(q)

\* A notify_one that wakes nobody.
NotifyNobody(waiters, pcs, wake) == {<<waiters, pcs>>}

\* std::condition_variable::notify_one: one of the threads blocked in wait(), if
\* there is any, leaves the wait and goes on to relock the mutex.  The result is
\* the set of the outcomes <<waiters, positions>>.
NotifyOne(waiters, pcs, wake) ==
    IF waiters = {} THEN {<<waiters, pcs>>}
    ELSE {<<waiters \ {w}, [pcs EXCEPT ![w] = wake]>> : w \in waiters}

\* A thread calls enqueue with a new item, or dequeue.
QueueCall(t) ==
    /\ qpc[t] = "idle"
    /\ qcalls < MaxQueueCalls
    /\ \E op \in {"enqueue", "dequeue"} :
        /\ qpc' = [qpc EXCEPT ![t] = IF op = "enqueue" THEN "enqueue_lock" ELSE "dequeue_lock"]
        /\ qitem' = [qitem EXCEPT ![t] = IF op = "enqueue" THEN WorkItem(qcalls + 1) ELSE NoItem]
    /\ waited' = [waited EXCEPT ![t] = FALSE]
    /\ qcalls' = qcalls + 1
    /\ UNCHANGED <<queue, maxSize, queueMutex, notEmpty, notFull, inserted, removed, wakes,
                   outsideQueue>>

\* lines 134 / 147: unique_lock on queueMutex; also the relock at the end of a
\* condition_variable::wait.
QueueLock(t) ==
    /\ qpc[t] \in {"enqueue_lock", "enqueue_relock", "dequeue_lock", "dequeue_relock"}
    /\ queueMutex = NoThread
    /\ queueMutex' = t
    /\ qpc' = [qpc EXCEPT ![t] = IF qpc[t] \in {"enqueue_lock", "enqueue_relock"}
                                  THEN "enqueue_wait" ELSE "dequeue_wait"]
    /\ UNCHANGED <<queue, maxSize, notEmpty, notFull, qitem, waited, inserted, removed, qcalls, wakes,
                   outsideQueue>>

\* line 137: notFull.wait(lock, pred): with the predicate false the thread
\* unlocks the mutex and blocks.
EnqueueWait(t) ==
    /\ qpc[t] = "enqueue_wait"
    /\ IF HasRoom(queue, maxSize)
       THEN /\ qpc' = [qpc EXCEPT ![t] = "enqueue_push"]
            /\ UNCHANGED <<queueMutex, notFull, waited>>
       ELSE /\ queueMutex' = NoThread
            /\ notFull' = notFull \cup {t}
            /\ waited' = [waited EXCEPT ![t] = TRUE]
            /\ qpc' = [qpc EXCEPT ![t] = "enqueue_blocked"]
    /\ UNCHANGED <<queue, maxSize, notEmpty, qitem, inserted, removed, qcalls, wakes,
                   outsideQueue>>

\* lines 139-142: queue.push(item); notEmpty.notify_one().
EnqueuePush(t) ==
    /\ qpc[t] = "enqueue_push"
    /\ queue' = Append(queue, qitem[t])
    /\ inserted' = Append(inserted, qitem[t])
    /\ \E n \in NotifyOne(notEmpty, [qpc EXCEPT ![t] = "enqueue_return"], "dequeue_relock") :
        notEmpty' = n[1] /\ qpc' = n[2]
    /\ UNCHANGED <<maxSize, queueMutex, notFull, qitem, waited, removed, qcalls, wakes,
                   outsideQueue>>

\* line 150: notEmpty.wait(lock, pred).
DequeueWait(t) ==
    /\ qpc[t] = "dequeue_wait"
    /\ IF HasEntry(queue)
       THEN /\ qpc' = [qpc EXCEPT ![t] = "dequeue_pop"]
            /\ UNCHANGED <<queueMutex, notEmpty, waited>>
       ELSE /\ queueMutex' = NoThread
            /\ notEmpty' = notEmpty \cup {t}
            /\ waited' = [waited EXCEPT ![t] = TRUE]
            /\ qpc' = [qpc EXCEPT ![t] = "dequeue_blocked"]
    /\ UNCHANGED <<queue, maxSize, notFull, qitem, inserted, removed, qcalls, wakes,
                   outsideQueue>>

\* lines 152-156: item = queue.front(); queue.pop(); notFull.notify_one().
DequeuePop(t) ==
    /\ qpc[t] = "dequeue_pop"
    /\ qitem' = [qitem EXCEPT ![t] = Front(queue)]
    /\ removed' = Append(removed, Front(queue))
    /\ queue' = Tail(queue)
    /\ \E n \in NotifyOne(notFull, [qpc EXCEPT ![t] = "dequeue_return"], "enqueue_relock") :
        notFull' = n[1] /\ qpc' = n[2]
    /\ UNCHANGED <<maxSize, queueMutex, notEmpty, waited, inserted, qcalls, wakes,
                   outsideQueue>>

\* lines 143-144 / 157-158: return true; the unique_lock unlocks.
QueueReturn(t) ==
    /\ qpc[t] \in {"enqueue_return", "dequeue_return"}
    /\ queueMutex' = NoThread
    /\ qpc' = [qpc EXCEPT ![t] = "idle"]
    /\ UNCHANGED <<queue, maxSize, notEmpty, notFull, qitem, waited, inserted, removed, qcalls, wakes,
                   outsideQueue>>

\* std::condition_variable::wait may return without a notification; the
\* predicate loops of lines 137 and 150 then test again.
SpuriousWake(t) ==
    /\ qpc[t] \in {"enqueue_blocked", "dequeue_blocked"}
    /\ wakes < MaxSpuriousWakes
    /\ wakes' = wakes + 1
    /\ notFull' = notFull \ {t}
    /\ notEmpty' = notEmpty \ {t}
    /\ qpc' = [qpc EXCEPT ![t] = IF qpc[t] = "enqueue_blocked"
                                  THEN "enqueue_relock" ELSE "dequeue_relock"]
    /\ UNCHANGED <<queue, maxSize, queueMutex, qitem, waited, inserted, removed, qcalls,
                   outsideQueue>>

\* WorkQueue::WorkQueue(maxSize): an empty queue of the given capacity.
QueueInit ==
    /\ queue = << >>
    /\ maxSize \in 0..MaxCapacity
    /\ queueMutex = NoThread
    /\ notEmpty = {}
    /\ notFull = {}
    /\ qpc = [t \in QueueThreads |-> "idle"]
    /\ qitem = [t \in QueueThreads |-> NoItem]
    /\ waited = [t \in QueueThreads |-> FALSE]
    /\ inserted = << >>
    /\ removed = << >>
    /\ qcalls = 0
    /\ wakes = 0

\* ============================================================= ThreadPool
\* ThreadPool (src/MTBS/src/thread_manager.cpp): worker threads created by the
\* constructor run workerFunction; one client thread calls start, submitTask
\* and stop in any order.
Workers == {1, 2}
Client == 3
Priorities == {0, 1}

\* ThreadPool::Task; the function is named by the number of the submitTask call.
Task(id, prio) == [id |-> id, priority |-> prio]

\* ThreadPool::Task::Task(): function(nullptr).
NoTask == Task(0, 0)

\* std::priority_queue::top with Task::operator<: a task that is less than no
\* other; among tasks of equal priority the heap order decides.
Top(q) == {x \in q : \A y \in q : ~(x.priority < y.priority)}

\* A notify_all that wakes nobody.
NotifiedNone(pcs, waiters) == pcs

\* std::condition_variable::notify_all: every blocked worker leaves the wait
\* and goes on to relock the mutex.
NotifiedAll(pcs, waiters) == [w \in Workers |-> IF w \in waiters THEN "relock" ELSE pcs[w]]

\* The client calls start, submitTask or stop.
PoolCall ==
    /\ cpc = "idle"
    /\ pcalls < MaxPoolCalls
    /\ \E op \in {"start", "submit", "stop"} :
        /\ cpc' = (CASE op = "start" -> "start_lock"
                     [] op = "submit" -> "submit_lock"
                     [] op = "stop" -> "stop_lock")
        /\ stopCalled' = (stopCalled \/ op = "stop")
    /\ pcalls' = pcalls + 1
    /\ UNCHANGED <<running, taskQueue, poolMutex, condition, activeThreads, workers, wpc, wtask,
                   accepted, executed, queuedAtStop, stopReturned, pwakes, cret, wanted, outsidePool>>

\* lines 28 / 37 / 52: lock_guard on poolMutex.
ClientLock ==
    /\ cpc \in {"start_lock", "submit_lock", "stop_lock"}
    /\ poolMutex = NoThread
    /\ poolMutex' = Client
    /\ cpc' = (CASE cpc = "start_lock" -> "start_body"
                 [] cpc = "submit_lock" -> "submit_body"
                 [] cpc = "stop_lock" -> "stop_body")
    /\ UNCHANGED <<running, taskQueue, condition, activeThreads, workers, wpc, wtask,
                   accepted, executed, stopCalled, queuedAtStop, stopReturned, pcalls, pwakes,
                   cret, wanted, outsidePool>>

\* ThreadPool::start, lines 29-33.
StartBody ==
    /\ cpc = "start_body"
    /\ IF ~running
       THEN /\ running' = TRUE
            /\ wpc' = NotifiedAll(wpc, condition)
            /\ condition' = {}
       ELSE UNCHANGED <<running, wpc, condition>>
    /\ poolMutex' = NoThread
    /\ cpc' = "idle"
    /\ cret' = "void"
    /\ UNCHANGED <<taskQueue, activeThreads, workers, wtask, accepted, executed, stopCalled,
                   queuedAtStop, stopReturned, pcalls, pwakes, wanted, outsidePool>>

\* A submitTask that does not look at running.
SubmitBodyUnchecked ==
    /\ cpc = "submit_body"
    /\ \E p \in Priorities :
        /\ taskQueue' = taskQueue \cup {Task(pcalls, 0)}
        /\ accepted' = accepted \cup {pcalls}
        /\ wanted' = wanted @@ (pcalls :> p)
    /\ cret' = "true"
    /\ poolMutex' = NoThread
    /\ cpc' = "idle"
    /\ UNCHANGED <<running, condition, wpc, activeThreads, workers, wtask, executed, stopCalled,
                   queuedAtStop, stopReturned, pcalls, pwakes, outsidePool>>

\* ThreadPool::submitTask, lines 54-65: refused unless running; else the task is
\* pushed with priority 0, whatever priority the submitter has in mind for it
\* (the function takes none), and one waiting worker is notified.
SubmitBody ==
    /\ cpc = "submit_body"
    /\ IF ~running
       THEN /\ cret' = "false"
            /\ UNCHANGED <<taskQueue, accepted, wanted, condition, wpc>>
       ELSE /\ \E p \in Priorities :
                /\ taskQueue' = taskQueue \cup {Task(pcalls, 0)}
                /\ accepted' = accepted \cup {pcalls}
                /\ wanted' = wanted @@ (pcalls :> p)
            /\ cret' = "true"
            /\ \E n \in NotifyOne(condition, wpc, "relock") :
                condition' = n[1] /\ wpc' = n[2]
    /\ poolMutex' = NoThread
    /\ cpc' = "idle"
    /\ UNCHANGED <<running, activeThreads, workers, wtask, executed, stopCalled,
                   queuedAtStop, stopReturned, pcalls, pwakes, outsidePool>>

\* ThreadPool::stop, lines 36-39: running = false under the lock.
StopBody ==
    /\ cpc = "stop_body"
    /\ running' = FALSE
    /\ queuedAtStop' = queuedAtStop \cup {x.id : x \in taskQueue}
    /\ poolMutex' = NoThread
    /\ cpc' = "stop_notify"
    /\ UNCHANGED <<taskQueue, condition, activeThreads, workers, wpc, wtask, accepted, executed,
                   stopCalled, stopReturned, pcalls, pwakes, cret, wanted, outsidePool>>

\* ThreadPool::stop, line 40: condition.notify_all().
StopNotify ==
    /\ cpc = "stop_notify"
    /\ wpc' = NotifiedAll(wpc, condition)
    /\ condition' = {}
    /\ cpc' = "stop_join"
    /\ UNCHANGED <<running, taskQueue, poolMutex, activeThreads, workers, wtask, accepted,
                   executed, stopCalled, queuedAtStop, stopReturned, pcalls, pwakes, cret, wanted, outsidePool>>

\* ThreadPool::stop, lines 43-48: join every worker of the vector, which blocks
\* until each has left workerFunction; then workers.clear().
StopJoin ==
    /\ cpc = "stop_join"
    /\ \A w \in workers : wpc[w] = "exited"
    /\ workers' = {}
    /\ stopReturned' = TRUE
    /\ cpc' = "idle"
    /\ cret' = "void"
    /\ UNCHANGED <<running, taskQueue, poolMutex, condition, activeThreads, wpc, wtask, accepted,
                   executed, stopCalled, queuedAtStop, pcalls, pwakes, wanted, outsidePool>>

\* ThreadPool::workerFunction, line 88: while (running).
WorkerLoop(w) ==
    /\ wpc[w] = "loop"
    /\ wpc' = [wpc EXCEPT ![w] = IF running THEN "lock" ELSE "exited"]
    /\ wtask' = [wtask EXCEPT ![w] = NoTask]
    /\ UNCHANGED <<running, taskQueue, poolMutex, condition, activeThreads, workers, cpc,
                   accepted, executed, stopCalled, queuedAtStop, stopReturned, pcalls, pwakes,
                   cret, wanted, outsidePool>>

\* line 91: unique_lock on poolMutex; also the relock at the end of a wait.
WorkerLock(w) ==
    /\ wpc[w] \in {"lock", "relock"}
    /\ poolMutex = NoThread
    /\ poolMutex' = w
    /\ wpc' = [wpc EXCEPT ![w] = "wait"]
    /\ UNCHANGED <<running, taskQueue, condition, activeThreads, workers, wtask, cpc,
                   accepted, executed, stopCalled, queuedAtStop, stopReturned, pcalls, pwakes,
                   cret, wanted, outsidePool>>

\* lines 94-96: condition.wait(lock, pred) with pred = !running || !taskQueue.empty().
WorkerWait(w) ==
    /\ wpc[w] = "wait"
    /\ IF ~running \/ taskQueue # {}
       THEN /\ wpc' = [wpc EXCEPT ![w] = "take"]
            /\ UNCHANGED <<poolMutex, condition>>
       ELSE /\ poolMutex' = NoThread
            /\ condition' = condition \cup {w}
            /\ wpc' = [wpc EXCEPT ![w] = "blocked"]
    /\ UNCHANGED <<running, taskQueue, activeThreads, workers, wtask, cpc,
                   accepted, executed, stopCalled, queuedAtStop, stopReturned, pcalls, pwakes,
                   cret, wanted, outsidePool>>

\* A worker that goes on to run its task with the pool's lock in its hands.
WorkerTakeKeepsLock(w) ==
    /\ wpc[w] = "take"
    /\ taskQueue # {}
    /\ \E x \in Top(taskQueue) :
        /\ wtask' = [wtask EXCEPT ![w] = x]
        /\ taskQueue' = taskQueue \ {x}
    /\ activeThreads' = activeThreads + 1
    /\ wpc' = [wpc EXCEPT ![w] = "run"]
    /\ UNCHANGED <<running, poolMutex, condition, workers, cpc, accepted, executed, stopCalled,
                   queuedAtStop, stopReturned, pcalls, pwakes, cret, wanted, outsidePool>>

\* A worker that copies the top task and leaves it in the queue.
WorkerTakeNoPop(w) ==
    /\ wpc[w] = "take"
    /\ taskQueue # {}
    /\ \E x \in Top(taskQueue) : wtask' = [wtask EXCEPT ![w] = x]
    /\ activeThreads' = activeThreads + 1
    /\ wpc' = [wpc EXCEPT ![w] = "run"]
    /\ poolMutex' = NoThread
    /\ UNCHANGED <<running, taskQueue, condition, workers, cpc, accepted, executed, stopCalled,
                   queuedAtStop, stopReturned, pcalls, pwakes, cret, wanted, outsidePool>>

\* lines 98-107: break when stopped with an empty queue; else take the top task
\* if there is one; the unique_lock unlocks.
WorkerTake(w) ==
    /\ wpc[w] = "take"
    /\ IF ~running /\ taskQueue = {}
       THEN /\ wpc' = [wpc EXCEPT ![w] = "exited"]
            /\ UNCHANGED <<taskQueue, wtask, activeThreads>>
       ELSE IF taskQueue # {}
       THEN /\ \E x \in Top(taskQueue) :
                /\ wtask' = [wtask EXCEPT ![w] = x]
                /\ taskQueue' = taskQueue \ {x}
            /\ activeThreads' = activeThreads + 1
            /\ wpc' = [wpc EXCEPT ![w] = "run"]
       ELSE /\ wpc' = [wpc EXCEPT ![w] = "run"]
            /\ UNCHANGED <<taskQueue, wtask, activeThreads>>
    /\ poolMutex' = NoThread
    /\ UNCHANGED <<running, condition, workers, cpc, accepted, executed, stopCalled,
                   queuedAtStop, stopReturned, pcalls, pwakes, cret, wanted, outsidePool>>

\* What a call of a task's function does: it returns, it throws an exception
\* derived from std::exception, or it throws anything else.
TaskOutcomes == {"returns", "std_exception", "other_exception"}

\* The outcomes the catch clause of line 113 handles.
Caught == {"std_exception"}

\* An exception leaves the function of a std::thread: std::terminate ends the
\* process, and with it every thread.
Terminated == [w \in Workers |-> "terminated"]

\* lines 110-116: if (task.function) task.function(), inside try / catch
\* (const std::exception&).  A default task has no function.
WorkerRun(w) ==
    /\ wpc[w] = "run"
    /\ \E o \in (IF wtask[w] # NoTask THEN TaskOutcomes ELSE {"returns"}) :
        IF o \in {"returns"} \cup Caught
        THEN /\ wpc' = [wpc EXCEPT ![w] = "done"]
             /\ cpc' = cpc
        ELSE /\ wpc' = Terminated
             /\ cpc' = "terminated"
    /\ executed' = IF wtask[w] # NoTask THEN executed \cup {wtask[w].id} ELSE executed
    /\ UNCHANGED <<running, taskQueue, poolMutex, condition, activeThreads, workers, wtask,
                   accepted, stopCalled, queuedAtStop, stopReturned, pcalls, pwakes,
                   cret, wanted, outsidePool>>

\* A worker that goes back to the loop without the decrement.
WorkerDoneKeepsCount(w) ==
    /\ wpc[w] = "done"
    /\ wpc' = [wpc EXCEPT ![w] = "loop"]
    /\ UNCHANGED <<running, taskQueue, poolMutex, condition, activeThreads, workers, wtask, cpc,
                   accepted, executed, stopCalled, queuedAtStop, stopReturned, pcalls, pwakes,
                   cret, wanted, outsidePool>>

\* line 118: activeThreads--; back to the loop condition.
WorkerDone(w) ==
    /\ wpc[w] = "done"
    /\ activeThreads' = activeThreads - 1
    /\ wpc' = [wpc EXCEPT ![w] = "loop"]
    /\ UNCHANGED <<running, taskQueue, poolMutex, condition, workers, wtask, cpc,
                   accepted, executed, stopCalled, queuedAtStop, stopReturned, pcalls, pwakes,
                   cret, wanted, outsidePool>>

\* condition.wait may return without a notification; the predicate loop of
\* lines 94-96 then tests again.
WorkerSpuriousWake(w) ==
    /\ wpc[w] = "blocked"
    /\ pwakes < MaxSpuriousWakes
    /\ pwakes' = pwakes + 1
    /\ condition' = condition \ {w}
    /\ wpc' = [wpc EXCEPT ![w] = "relock"]
    /\ UNCHANGED <<running, taskQueue, poolMutex, activeThreads, workers, wtask, cpc,
                   accepted, executed, stopCalled, queuedAtStop, stopReturned, pcalls,
                   cret, wanted, outsidePool>>

\* ThreadPool::ThreadPool(threadCount), lines 14-21, 80-85: running(false),
\* activeThreads(0), and every worker thread started at the top of
\* workerFunction.
PoolInit ==
    /\ running = FALSE
    /\ taskQueue = {}
    /\ poolMutex = NoThread
    /\ condition = {}
    /\ activeThreads = 0
    /\ workers = Workers
    /\ wpc = [w \in Workers |-> "loop"]
    /\ wtask = [w \in Workers |-> NoTask]
    /\ cpc = "idle"
    /\ accepted = {}
    /\ executed = {}
    /\ stopCalled = FALSE
    /\ queuedAtStop = {}
    /\ stopReturned = FALSE
    /\ pcalls = 0
    /\ pwakes = 0
    /\ cret = "none"
    /\ wanted = << >>

\* =================================================================== Bank
\* Bank (src/MTBS/src/bank.cpp): the map from account numbers to Account
\* objects under accountsMutex.  Threads call createAccount, closeAccount,
\* getAccount, processDeposit, getTotalAccounts, getActiveAccounts,
\* getAllAccounts and clearAllData.  An Account object lives as long as a
\* shared_ptr to it does, in the map or in a thread.
BankThreads == {1, 2}

\* The account numbers the callers pass, and the numbers the random generator
\* can draw.
AccountNumbers == {1, 2}

\* The Account objects a run can construct.
Objects == 1..MaxBankCalls
NoObject == 0

\* BankUtils::generateAccountNumber is defined twice: bank.cpp:534-539 numbers
\* the accounts with a static counter, bank_utils.cpp:9-21 draws two random
\* numbers.  The build links one of them.
Generators == {"counter", "random"}

\* The numbers a call of generateAccountNumber can return.
GeneratedNumbers(gen, counter) ==
    IF gen = "counter" THEN {counter + 1} ELSE AccountNumbers

BankCalls ==
    [op : {"createAccount"}, number : {0}, amount : 0..MaxInitial]
    \cup [op : {"closeAccount", "getAccount"}, number : AccountNumbers, amount : {0}]
    \cup [op : {"processDeposit"}, number : AccountNumbers, amount : 0..MaxAmount]
    \cup [op : {"getTotalAccounts", "getActiveAccounts", "getAllAccounts", "clearAllData"},
          number : {0}, amount : {0}]

NoBankCall == [op |-> "none", number |-> 0, amount |-> 0]

BankFirstLabel(c) ==
    CASE c.op = "createAccount" -> "create_check"
      [] c.op = "closeAccount" -> "close_find"
      [] c.op = "getAccount" -> "get_account"
      [] c.op = "processDeposit" -> "deposit_get"
      [] c.op = "processWithdraw" -> "withdraw_get"
      [] c.op = "processTransfer" -> "transfer_get_from"
      [] c.op = "getTotalAccounts" -> "total_accounts"
      [] c.op = "getActiveAccounts" -> "active_lock"
      [] c.op = "getAllAccounts" -> "all_accounts"
      [] c.op = "clearAllData" -> "clear_all"

\* std::map::erase / clear: the map without the numbers in ns.
Without(m, ns) == [n \in DOMAIN m \ ns |-> m[n]]

\* The records of the removal of the numbers in ns from the map.
Removed(m, ns, bal) == {[number |-> n, object |-> m[n], balance |-> bal[m[n]]] : n \in ns}

\* A thread calls an operation of the bank.
BankCall(t) ==
    /\ bpc[t] = "idle"
    /\ bcalls < MaxBankCalls
    /\ \E c \in BankCalls :
        /\ bcall' = [bcall EXCEPT ![t] = c]
        /\ bpc' = [bpc EXCEPT ![t] = BankFirstLabel(c)]
    /\ bcalls' = bcalls + 1
    /\ bret' = [bret EXCEPT ![t] = "running"]
    /\ bobj' = [bobj EXCEPT ![t] = NoObject]
    /\ UNCHANGED <<accounts, accountsMutex, obalance, olock, nextObj, genCounter, generator,
                   bnum, bsaw, remaining, removals, issued, replaced, closeLog, closedNumbers,
                   outsideBank>>

\* The call of thread t ends with r.
BankEnds(t, r) ==
    /\ bpc' = [bpc EXCEPT ![t] = "idle"]
    /\ bret' = [bret EXCEPT ![t] = r]

\* Bank::createAccount, line 88: getTotalAccounts() >= config.maxAccounts.
CeilingReached(size, max) == size >= max

\* Bank::createAccount, lines 87-91, with getTotalAccounts (lines 282-285): the
\* size of the map is read under accountsMutex; at the ceiling BankException
\* is thrown.
CreateCheck(t) ==
    /\ bpc[t] = "create_check"
    /\ accountsMutex = NoThread
    /\ IF CeilingReached(Cardinality(DOMAIN accounts), MaxAccounts)
       THEN BankEnds(t, "exception")
       ELSE /\ bpc' = [bpc EXCEPT ![t] = "create_generate"]
            /\ bret' = bret
    /\ UNCHANGED <<accounts, accountsMutex, obalance, olock, nextObj, genCounter, generator,
                   bcall, bnum, bobj, bsaw, remaining, bcalls, removals, issued, replaced,
                   closeLog, closedNumbers, outsideBank>>

\* lines 94-97: generateAccountNumber(), then make_shared<Account> with the
\* initial balance.
CreateGenerate(t) ==
    /\ bpc[t] = "create_generate"
    /\ nextObj < MaxBankCalls
    /\ \E n \in GeneratedNumbers(generator, genCounter) :
        bnum' = [bnum EXCEPT ![t] = n]
    /\ genCounter' = genCounter + 1
    /\ nextObj' = nextObj + 1
    /\ bobj' = [bobj EXCEPT ![t] = nextObj + 1]
    /\ obalance' = [obalance EXCEPT ![nextObj + 1] = bcall[t].amount]
    /\ bpc' = [bpc EXCEPT ![t] = "create_insert"]
    /\ UNCHANGED <<accounts, accountsMutex, olock, generator, bcall, bsaw, remaining, bret,
                   bcalls, removals, issued, replaced, closeLog, closedNumbers, outsideBank>>

\* lines 100-111: accounts[accountNumber] = account under accountsMutex, which
\* takes the place of an account the map holds under that number; the number
\* is returned.
CreateInsert(t) ==
    LET n == bnum[t]
        present == n \in DOMAIN accounts
    IN  /\ bpc[t] = "create_insert"
        /\ accountsMutex = NoThread
        /\ accounts' = [m \in DOMAIN accounts \cup {n} |->
                            IF m = n THEN bobj[t] ELSE accounts[m]]
        /\ replaced' = IF present THEN replaced \cup {accounts[n]} ELSE replaced
        /\ removals' = IF present THEN removals \cup Removed(accounts, {n}, obalance)
                       ELSE removals
        /\ issued' = issued \cup {<<n, bobj[t]>>}
        /\ BankEnds(t, "number")
        /\ UNCHANGED <<accountsMutex, obalance, olock, nextObj, genCounter, generator,
                       bcall, bnum, bobj, bsaw, remaining, bcalls, closeLog, closedNumbers,
                       outsideBank>>

\* Bank::closeAccount, lines 119-124: lock_guard on accountsMutex, find; an
\* unknown number returns false.
CloseFind(t) ==
    LET n == bcall[t].number
    IN  /\ bpc[t] = "close_find"
        /\ accountsMutex = NoThread
        /\ IF n \in DOMAIN accounts
           THEN /\ accountsMutex' = t
                /\ bobj' = [bobj EXCEPT ![t] = accounts[n]]
                /\ bpc' = [bpc EXCEPT ![t] = "close_balance_lock"]
                /\ bret' = bret
           ELSE /\ BankEnds(t, "false")
                /\ UNCHANGED <<accountsMutex, bobj>>
        /\ UNCHANGED <<accounts, obalance, olock, nextObj, genCounter, generator, bcall, bnum,
                       bsaw, remaining, bcalls, removals, issued, replaced, closeLog,
                       closedNumbers, outsideBank>>

\* line 127, Account::getBalance (account.cpp:77-80): lock_guard on the
\* account's mutex, taken while accountsMutex is held.
CloseBalanceLock(t) ==
    /\ bpc[t] = "close_balance_lock"
    /\ olock[bobj[t]] = NoThread
    /\ olock' = [olock EXCEPT ![bobj[t]] = t]
    /\ bpc' = [bpc EXCEPT ![t] = "close_balance_read"]
    /\ UNCHANGED <<accounts, accountsMutex, obalance, nextObj, genCounter, generator, bcall,
                   bnum, bobj, bsaw, remaining, bret, bcalls, removals, issued, replaced,
                   closeLog, closedNumbers, outsideBank>>

\* Account::getBalance returns the balance and unlocks the account.
CloseBalanceRead(t) ==
    /\ bpc[t] = "close_balance_read"
    /\ bsaw' = [bsaw EXCEPT ![t] = obalance[bobj[t]]]
    /\ olock' = [olock EXCEPT ![bobj[t]] = NoThread]
    /\ bpc' = [bpc EXCEPT ![t] = "close_erase"]
    /\ UNCHANGED <<accounts, accountsMutex, obalance, nextObj, genCounter, generator, bcall,
                   bnum, bobj, remaining, bret, bcalls, removals, issued, replaced,
                   closeLog, closedNumbers, outsideBank>>

\* line 127: the account may be closed when getBalance() != 0.0 is false.
MayClose(bal) == bal = 0

\* lines 127-140: a balance other than zero returns false; else the account is
\* erased from the map and true is returned; the lock_guard unlocks.
CloseErase(t) ==
    LET n == bcall[t].number
    IN  /\ bpc[t] = "close_erase"
        /\ IF MayClose(bsaw[t])
           THEN /\ accounts' = Without(accounts, {n})
                /\ removals' = removals \cup Removed(accounts, {n}, obalance)
                /\ closedNumbers' = closedNumbers \cup {n}
                /\ closeLog' = closeLog \cup
                        {[number |-> n, saw |-> bsaw[t], result |-> "true", erased |-> TRUE]}
                /\ BankEnds(t, "true")
           ELSE /\ closeLog' = closeLog \cup
                        {[number |-> n, saw |-> bsaw[t], result |-> "false", erased |-> FALSE]}
                /\ BankEnds(t, "false")
                /\ UNCHANGED <<accounts, removals, closedNumbers>>
        /\ accountsMutex' = NoThread
        /\ UNCHANGED <<obalance, olock, nextObj, genCounter, generator, bcall, bnum, bobj, bsaw,
                       remaining, bcalls, issued, replaced, outsideBank>>

\* Bank::getAccount, lines 143-151: find under accountsMutex; the shared_ptr,
\* or nullptr for an unknown number.
GetAccount(t) ==
    LET n == bcall[t].number
    IN  /\ bpc[t] = "get_account"
        /\ accountsMutex = NoThread
        /\ IF n \in DOMAIN accounts
           THEN /\ bobj' = [bobj EXCEPT ![t] = accounts[n]]
                /\ BankEnds(t, "account")
           ELSE /\ bobj' = [bobj EXCEPT ![t] = NoObject]
                /\ BankEnds(t, "nullptr")
        /\ UNCHANGED <<accounts, accountsMutex, obalance, olock, nextObj, genCounter, generator,
                       bcall, bnum, bsaw, remaining, bcalls, removals, issued, replaced,
                       closeLog, closedNumbers, outsideBank>>

\* ------------------------------------ processDeposit / Withdraw / Transfer
\* The bank variables the wrappers leave alone.
registryVars == <<accounts, accountsMutex, nextObj, genCounter, generator, bnum, bsaw,
                  remaining, removals, issued, replaced, closeLog, closedNumbers>>

wrapperFrame == <<registryVars, bcall, bcalls, enableAuditLogging, btarget, outsideWrapper>>

\* The calls of a workload of wrappers: accounts are created, and money is
\* deposited, withdrawn and transferred by number.
WrapperCalls ==
    [op : {"createAccount"}, number : {0}, amount : 0..MaxInitial]
    \cup [op : {"processDeposit", "processWithdraw", "processTransfer"},
          number : AccountNumbers, amount : 0..MaxAmount]

\* The calls of a run of wrappers: one more than there are threads, so that
\* two wrappers can run at once on an account created before.
MaxWrapperCalls == Cardinality(BankThreads) + 1

\* A thread calls createAccount or a wrapper.
WrapperCall(t) ==
    /\ bpc[t] = "idle"
    /\ bcalls < MaxWrapperCalls
    /\ \E c \in WrapperCalls :
        /\ bcall' = [bcall EXCEPT ![t] = c]
        /\ bpc' = [bpc EXCEPT ![t] = BankFirstLabel(c)]
        /\ \E to \in (IF c.op = "processTransfer" THEN AccountNumbers ELSE {0}) :
            btarget' = [btarget EXCEPT ![t] = to]
    /\ bcalls' = bcalls + 1
    /\ bret' = [bret EXCEPT ![t] = "running"]
    /\ bobj' = [bobj EXCEPT ![t] = NoObject]
    /\ UNCHANGED <<registryVars, obalance, olock, statVars, enableAuditLogging, bobj2, baudit,
                   wdone, orecords, outsideWrapper>>

\* A lookup that finds an account whatever the number.
LookupOrFirst(m, n) == IF n \in DOMAIN m THEN m[n] ELSE 1

\* Bank::getAccount, lines 148-150: the shared_ptr found, or nullptr.
Lookup(m, n) == IF n \in DOMAIN m THEN m[n] ELSE NoObject

\* lines 168, 188, 210: !account.
Missing(h) == h = NoObject

\* The wrapper has its bool: updateStatistics comes next.
Result(t, r) ==
    /\ bpc' = [bpc EXCEPT ![t] = "stats_total"]
    /\ bret' = [bret EXCEPT ![t] = r]

\* An exception leaves the Account operation and the wrapper around it.
Throws(t) ==
    /\ BankEnds(t, "exception")
    /\ wdone' = [wdone EXCEPT !.exception = @ + 1]

\* The mutexes with those of thread t unlocked.
Released(m, t) == [o \in Objects |-> IF m[o] = t THEN NoThread ELSE m[o]]

\* lines 167-171 / 187-191: getAccount under accountsMutex; for an unknown
\* number success is false.  The thread keeps its shared_ptr after
\* accountsMutex is released.
GetsAccount(t, next) ==
    /\ accountsMutex = NoThread
    /\ bobj' = [bobj EXCEPT ![t] = Lookup(accounts, bcall[t].number)]
    /\ IF Missing(Lookup(accounts, bcall[t].number))
       THEN Result(t, "false")
       ELSE /\ bpc' = [bpc EXCEPT ![t] = next]
            /\ bret' = bret
    /\ bobj2' = [bobj2 EXCEPT ![t] = NoObject]
    /\ baudit' = [baudit EXCEPT ![t] = 0]
    /\ UNCHANGED <<obalance, olock, orecords, wdone, statVars, wrapperFrame>>

\* Bank::processDeposit, lines 167-171.
DepositGet(t) ==
    /\ bpc[t] = "deposit_get"
    /\ GetsAccount(t, "deposit_lock")

\* Bank::processWithdraw, lines 187-191.
WithdrawGet(t) ==
    /\ bpc[t] = "withdraw_get"
    /\ GetsAccount(t, "withdraw_lock")

\* account.cpp:94 / 116: lock_guard on the account's mutex.
LocksAccount(t, next) ==
    /\ olock[bobj[t]] = NoThread
    /\ olock' = [olock EXCEPT ![bobj[t]] = t]
    /\ bpc' = [bpc EXCEPT ![t] = next]
    /\ UNCHANGED <<obalance, orecords, bret, bobj, bobj2, baudit, wdone, statVars, wrapperFrame>>

\* line 173, Account::deposit (account.cpp:94).
BankDepositLock(t) ==
    /\ bpc[t] = "deposit_lock"
    /\ LocksAccount(t, "deposit_body")

\* line 193, Account::withdraw (account.cpp:116).
BankWithdrawLock(t) ==
    /\ bpc[t] = "withdraw_lock"
    /\ LocksAccount(t, "withdraw_body")

\* account.cpp:97-109: an amount that is not positive returns false; else
\* balance += amount and the record is built.
BankDepositBody(t) ==
    /\ bpc[t] = "deposit_body"
    /\ IF bcall[t].amount <= 0
       THEN /\ olock' = Released(olock, t)
            /\ obalance' = obalance
            /\ Result(t, "false")
       ELSE /\ obalance' = [obalance EXCEPT ![bobj[t]] = @ + bcall[t].amount]
            /\ bpc' = [bpc EXCEPT ![t] = "record"]
            /\ bret' = [bret EXCEPT ![t] = "true"]
            /\ olock' = olock
    /\ UNCHANGED <<orecords, bobj, bobj2, baudit, wdone, statVars, wrapperFrame>>

\* account.cpp:119-143: an amount that is not positive returns false; with
\* balance < amount the INSUFFICIENT_FUNDS record is built and false returned;
\* else balance -= amount and the SUCCESS record is built.
BankWithdrawBody(t) ==
    /\ bpc[t] = "withdraw_body"
    /\ IF bcall[t].amount <= 0
       THEN /\ olock' = Released(olock, t)
            /\ obalance' = obalance
            /\ Result(t, "false")
       ELSE /\ bpc' = [bpc EXCEPT ![t] = "record"]
            /\ olock' = olock
            /\ IF obalance[bobj[t]] < bcall[t].amount
               THEN /\ obalance' = obalance
                    /\ bret' = [bret EXCEPT ![t] = "false"]
               ELSE /\ obalance' = [obalance EXCEPT ![bobj[t]] = @ - bcall[t].amount]
                    /\ bret' = [bret EXCEPT ![t] = "true"]
    /\ UNCHANGED <<orecords, bobj, bobj2, baudit, wdone, statVars, wrapperFrame>>

\* Bank::processTransfer, line 207: getAccount(fromAccount).
TransferGetFrom(t) ==
    /\ bpc[t] = "transfer_get_from"
    /\ accountsMutex = NoThread
    /\ bobj' = [bobj EXCEPT ![t] = Lookup(accounts, bcall[t].number)]
    /\ bobj2' = [bobj2 EXCEPT ![t] = NoObject]
    /\ baudit' = [baudit EXCEPT ![t] = 0]
    /\ bpc' = [bpc EXCEPT ![t] = "transfer_get_to"]
    /\ UNCHANGED <<obalance, olock, orecords, bret, wdone, statVars, wrapperFrame>>

\* lines 208-213: getAccount(toAccount); with either account unknown success
\* is false.
TransferGetTo(t) ==
    /\ bpc[t] = "transfer_get_to"
    /\ accountsMutex = NoThread
    /\ bobj2' = [bobj2 EXCEPT ![t] = Lookup(accounts, btarget[t])]
    /\ IF Missing(bobj[t]) \/ Missing(Lookup(accounts, btarget[t]))
       THEN Result(t, "false")
       ELSE /\ bpc' = [bpc EXCEPT ![t] = "transfer_lock1"]
            /\ bret' = bret
    /\ UNCHANGED <<obalance, olock, orecords, bobj, baudit, wdone, statVars, wrapperFrame>>

\* account.cpp:154-160: the object whose mutex transfer locks first, and the
\* other one.
FirstObject(t) == IF bcall[t].number < btarget[t] THEN bobj[t] ELSE bobj2[t]

SecondObject(t) == IF bcall[t].number < btarget[t] THEN bobj2[t] ELSE bobj[t]

\* line 215, Account::transfer (account.cpp:155 / 158): the first lock().
BankTransferLock1(t) ==
    /\ bpc[t] = "transfer_lock1"
    /\ olock[FirstObject(t)] = NoThread
    /\ olock' = [olock EXCEPT ![FirstObject(t)] = t]
    /\ bpc' = [bpc EXCEPT ![t] = "transfer_lock2"]
    /\ UNCHANGED <<obalance, orecords, bret, bobj, bobj2, baudit, wdone, statVars, wrapperFrame>>

\* account.cpp:156 / 159: the second lock().  On the mutex the thread owns (a
\* transfer of an account to itself) the thread stays there for ever, or
\* std::system_error leaves transfer, or the lock is granted.
BankTransferLock2(t) ==
    /\ bpc[t] = "transfer_lock2"
    /\ IF olock[SecondObject(t)] = t
       THEN /\ mutexImpl # "deadlock"
            /\ IF mutexImpl = "throw"
               THEN /\ olock' = Released(olock, t)
                    /\ Throws(t)
               ELSE /\ bpc' = [bpc EXCEPT ![t] = "transfer_body"]
                    /\ UNCHANGED <<olock, bret, wdone>>
       ELSE /\ olock[SecondObject(t)] = NoThread
            /\ olock' = [olock EXCEPT ![SecondObject(t)] = t]
            /\ bpc' = [bpc EXCEPT ![t] = "transfer_body"]
            /\ UNCHANGED <<bret, wdone>>
    /\ UNCHANGED <<obalance, orecords, bobj, bobj2, baudit, statVars, wrapperFrame>>

\* account.cpp:163-195: an amount that is not positive returns false; with
\* balance < amount the INSUFFICIENT_FUNDS record is built and false returned;
\* else the amount is moved and the records are built.
BankTransferBody(t) ==
    /\ bpc[t] = "transfer_body"
    /\ IF bcall[t].amount <= 0
       THEN /\ olock' = Released(olock, t)
            /\ obalance' = obalance
            /\ Result(t, "false")
       ELSE /\ bpc' = [bpc EXCEPT ![t] = "record"]
            /\ olock' = olock
            /\ IF obalance[bobj[t]] < bcall[t].amount
               THEN /\ obalance' = obalance
                    /\ bret' = [bret EXCEPT ![t] = "false"]
               ELSE /\ obalance' =
                        [[obalance EXCEPT ![bobj[t]] = @ - bcall[t].amount]
                            EXCEPT ![bobj2[t]] = @ + bcall[t].amount]
                    /\ bret' = [bret EXCEPT ![t] = "true"]
    /\ UNCHANGED <<orecords, bobj, bobj2, baudit, wdone, statVars, wrapperFrame>>

\* The histories after the call of thread t has pushed its records: one on
\* its account, and one on the target of a transfer that moved money.
Recorded(rec, t) ==
    LET own == [rec EXCEPT ![bobj[t]] = @ + 1]
    IN  IF bcall[t].op = "processTransfer" /\ bret[t] = "true"
        THEN [own EXCEPT ![bobj2[t]] = @ + 1]
        ELSE own

\* account.cpp:109 / 130 / 142 / 174 / 189 / 195, addTransaction
\* (account.cpp:200-204) locking the mutex the thread owns: the thread stays
\* there for ever, or std::system_error leaves the Account operation and the
\* wrapper, or the records are pushed and the operation returns.
BankRecord(t) ==
    /\ bpc[t] = "record"
    /\ mutexImpl # "deadlock"
    /\ olock' = Released(olock, t)
    /\ IF mutexImpl = "throw"
       THEN /\ Throws(t)
            /\ orecords' = orecords
       ELSE /\ orecords' = Recorded(orecords, t)
            /\ bpc' = [bpc EXCEPT ![t] = "stats_total"]
            /\ UNCHANGED <<bret, wdone>>
    /\ UNCHANGED <<obalance, bobj, bobj2, baudit, statVars, wrapperFrame>>

\* Bank::updateStatistics, line 458: totalTransactions++.
StatsTotal(t) ==
    /\ bpc[t] = "stats_total"
    /\ totalTransactions' = totalTransactions + 1
    /\ bpc' = [bpc EXCEPT ![t] = "stats_outcome"]
    /\ UNCHANGED <<successfulTransactions, failedTransactions, obalance, olock, orecords,
                   bret, bobj, bobj2, baudit, wdone, wrapperFrame>>

\* lines 459-463: successfulTransactions++ or failedTransactions++.
StatsOutcome(t) ==
    /\ bpc[t] = "stats_outcome"
    /\ IF bret[t] = "true"
       THEN /\ successfulTransactions' = successfulTransactions + 1
            /\ failedTransactions' = failedTransactions
       ELSE /\ failedTransactions' = failedTransactions + 1
            /\ successfulTransactions' = successfulTransactions
    /\ bpc' = [bpc EXCEPT ![t] = "wrapper_return"]
    /\ UNCHANGED <<totalTransactions, obalance, olock, orecords, bret, bobj, bobj2, baudit,
                   wdone, wrapperFrame>>

\* lines 176, 196, 218: if (success && config.enableAuditLogging).
Logs(success, audit) == success = "true" /\ audit

\* lines 176-182 / 196-202 / 218-224: transactionLogger->logMessage for an
\* operation that succeeded, with audit logging enabled; return success.
WrapperReturn(t) ==
    /\ bpc[t] = "wrapper_return"
    /\ baudit' = [baudit EXCEPT ![t] = IF Logs(bret[t], enableAuditLogging) THEN @ + 1 ELSE @]
    /\ wdone' = IF bret[t] = "true" THEN [wdone EXCEPT !.success = @ + 1]
                ELSE [wdone EXCEPT !.failure = @ + 1]
    /\ bpc' = [bpc EXCEPT ![t] = "idle"]
    /\ UNCHANGED <<obalance, olock, orecords, bret, bobj, bobj2, statVars, wrapperFrame>>

\* Bank::Bank (lines 57-59): the counters at 0; the configuration is the
\* caller's.
WrapperInit ==
    /\ totalTransactions = 0
    /\ successfulTransactions = 0
    /\ failedTransactions = 0
    /\ enableAuditLogging \in BOOLEAN
    /\ btarget = [t \in BankThreads |-> 0]
    /\ bobj2 = [t \in BankThreads |-> NoObject]
    /\ baudit = [t \in BankThreads |-> 0]
    /\ wdone = [success |-> 0, failure |-> 0, exception |-> 0]
    /\ orecords = [o \in Objects |-> 0]

\* Bank::getTotalAccounts (lines 282-285) and Bank::getAllAccounts (lines
\* 153-163): the map is read under accountsMutex.
ReadAccounts(t) ==
    /\ bpc[t] \in {"total_accounts", "all_accounts"}
    /\ accountsMutex = NoThread
    /\ BankEnds(t, IF bpc[t] = "total_accounts" THEN "count" ELSE "list")
    /\ UNCHANGED <<accounts, accountsMutex, obalance, olock, nextObj, genCounter, generator,
                   bcall, bnum, bobj, bsaw, remaining, bcalls, removals, issued, replaced,
                   closeLog, closedNumbers, outsideBank>>

\* Bank::getActiveAccounts, line 288: lock_guard on accountsMutex for the whole
\* loop over the map.
ActiveLock(t) ==
    /\ bpc[t] = "active_lock"
    /\ accountsMutex = NoThread
    /\ accountsMutex' = t
    /\ remaining' = [remaining EXCEPT ![t] = DOMAIN accounts]
    /\ bpc' = [bpc EXCEPT ![t] = "active_visit"]
    /\ UNCHANGED <<accounts, obalance, olock, nextObj, genCounter, generator, bcall, bnum, bobj,
                   bsaw, bret, bcalls, removals, issued, replaced, closeLog, closedNumbers,
                   outsideBank>>

\* The first of the numbers in ns, in the order of std::map.
FirstNumber(ns) == CHOOSE n \in ns : \A m \in ns : n <= m

\* lines 290-295: for the next account of the map, isActive()
\* (account.cpp:212-215) takes a lock_guard on the account's mutex; after the
\* last one the count is returned and accountsMutex unlocked.
ActiveVisit(t) ==
    /\ bpc[t] = "active_visit"
    /\ IF remaining[t] = {}
       THEN /\ accountsMutex' = NoThread
            /\ BankEnds(t, "count")
            /\ UNCHANGED <<olock, bobj>>
       ELSE /\ olock[accounts[FirstNumber(remaining[t])]] = NoThread
            /\ olock' = [olock EXCEPT ![accounts[FirstNumber(remaining[t])]] = t]
            /\ bobj' = [bobj EXCEPT ![t] = accounts[FirstNumber(remaining[t])]]
            /\ bpc' = [bpc EXCEPT ![t] = "active_read"]
            /\ UNCHANGED <<accountsMutex, bret>>
    /\ UNCHANGED <<accounts, obalance, nextObj, genCounter, generator, bcall, bnum, bsaw,
                   remaining, bcalls, removals, issued, replaced, closeLog, closedNumbers,
                   outsideBank>>

\* isActive() returns and unlocks the account.
ActiveRead(t) ==
    /\ bpc[t] = "active_read"
    /\ olock' = [olock EXCEPT ![bobj[t]] = NoThread]
    /\ remaining' = [remaining EXCEPT ![t] = @ \ {FirstNumber(@)}]
    /\ bpc' = [bpc EXCEPT ![t] = "active_visit"]
    /\ UNCHANGED <<accounts, accountsMutex, obalance, nextObj, genCounter, generator, bcall,
                   bnum, bobj, bsaw, bret, bcalls, removals, issued, replaced, closeLog,
                   closedNumbers, outsideBank>>

\* Bank::clearAllData, lines 385-394: accounts.clear() under accountsMutex,
\* whatever the balances.
ClearAllData(t) ==
    /\ bpc[t] = "clear_all"
    /\ accountsMutex = NoThread
    /\ accounts' = Without(accounts, DOMAIN accounts)
    /\ removals' = removals \cup Removed(accounts, DOMAIN accounts, obalance)
    /\ BankEnds(t, "void")
    /\ UNCHANGED <<accountsMutex, obalance, olock, nextObj, genCounter, generator, bcall, bnum,
                   bobj, bsaw, remaining, bcalls, issued, replaced, closeLog, closedNumbers,
                   outsideBank>>

\* Bank::Bank (lines 57-69): no account, every mutex free.
BankInit ==
    /\ accounts = [n \in {} |-> NoObject]
    /\ accountsMutex = NoThread
    /\ obalance = [o \in Objects |-> 0]
    /\ olock = [o \in Objects |-> NoThread]
    /\ nextObj = 0
    /\ genCounter = 0
    /\ generator \in Generators
    /\ bpc = [t \in BankThreads |-> "idle"]
    /\ bcall = [t \in BankThreads |-> NoBankCall]
    /\ bnum = [t \in BankThreads |-> 0]
    /\ bobj = [t \in BankThreads |-> NoObject]
    /\ bsaw = [t \in BankThreads |-> 0]
    /\ remaining = [t \in BankThreads |-> {}]
    /\ bret = [t \in BankThreads |-> "none"]
    /\ bcalls = 0
    /\ removals = {}
    /\ issued = {}
    /\ replaced = {}
    /\ closeLog = {}
    /\ closedNumbers = {}

\* ============================================= Bank: asynchronous path
\* Bank::startBankingSystem and Bank::processTransactionAsync
\* (src/MTBS/src/bank.cpp), called by one thread, the client of the pool.  The
\* bank enqueues into its WorkQueue and submits to its ThreadPool; no code of
\* the bank calls WorkQueue::dequeue.

\* Bank::startBankingSystem, lines 243-250: systemRunning = true, then
\* threadPool->start().  A call on a running system returns at once.
StartBankingSystem ==
    /\ apc = "idle"
    /\ ~systemRunning
    /\ systemRunning' = TRUE
    /\ cpc' = "start_lock"
    /\ apc' = "start"
    /\ UNCHANGED <<acalls, running, taskQueue, poolMutex, condition, activeThreads, workers,
                   wpc, wtask, accepted, executed, stopCalled, queuedAtStop, stopReturned,
                   pcalls, pwakes, cret, wanted, accountVars, queueVars, bankVars, wrapVars>>

\* Bank::processTransactionAsync, lines 481-487: return when the system is not
\* running; else build the work item and call workQueue->enqueue.
AsyncCall ==
    /\ apc = "idle"
    /\ acalls < MaxAsyncCalls
    /\ acalls' = acalls + 1
    /\ IF ~systemRunning
       THEN UNCHANGED <<apc, qpc, qitem, waited>>
       ELSE /\ apc' = "enqueue"
            /\ qpc' = [qpc EXCEPT ![Client] = "enqueue_lock"]
            /\ qitem' = [qitem EXCEPT ![Client] = WorkItem(acalls + 1)]
            /\ waited' = [waited EXCEPT ![Client] = FALSE]
    /\ UNCHANGED <<systemRunning, queue, maxSize, queueMutex, notEmpty, notFull, inserted,
                   removed, qcalls, wakes, accountVars, poolVars, bankVars, wrapVars>>

\* lines 487-489: enqueue has returned true; threadPool->submitTask.
AsyncSubmit ==
    /\ apc = "enqueue"
    /\ qpc[Client] = "idle"
    /\ cpc = "idle"
    /\ cpc' = "submit_lock"
    /\ pcalls' = pcalls + 1
    /\ apc' = "submit"
    /\ UNCHANGED <<systemRunning, acalls, running, taskQueue, poolMutex, condition,
                   activeThreads, workers, wpc, wtask, accepted, executed, stopCalled,
                   queuedAtStop, stopReturned, pwakes, cret, wanted,
                   accountVars, queueVars, bankVars, wrapVars>>

\* line 491 / line 257: the call of the pool has returned, and so does the bank's.
AsyncReturn ==
    /\ apc \in {"start", "submit"}
    /\ cpc = "idle"
    /\ apc' = "idle"
    /\ UNCHANGED <<systemRunning, acalls, accountVars, queueVars, poolVars, bankVars, wrapVars>>

\* Bank::Bank (lines 57-69): systemRunning(false).
AsyncInit ==
    /\ systemRunning = FALSE
    /\ apc = "idle"
    /\ acalls = 0

\* ------------------------------------------------------------ the system
\* The accounts are constructed one after the other (Account::Account), each
\* with a balance that isValidInitialBalance accepts (>= 0).
InitialCounter(init, a) == Cardinality({b \in Accounts : b <= a /\ init[b] > 0})

AccountInit ==
    /\ initialBalance \in [Accounts -> 0..MaxInitial]
    /\ balance = initialBalance
    /\ transactionHistory =
          [a \in Accounts |->
              InitialHistory(a, initialBalance[a], InitialCounter(initialBalance, a))]
    /\ transactionCounter = Cardinality({b \in Accounts : initialBalance[b] > 0})
    /\ accountMutex = [a \in Accounts |-> Free]
    /\ mutexImpl \in MutexImpls
    /\ pc = [t \in Threads |-> "idle"]
    /\ call = [t \in Threads |-> NoCall]
    /\ pending = [t \in Threads |-> NoTransaction]
    /\ addTo = [t \in Threads |-> NoAccount]
    /\ after = [t \in Threads |-> "return"]
    /\ retval = [t \in Threads |-> "void"]
    /\ result = [t \in Threads |-> "none"]
    /\ entry = [t \in Threads |-> Snapshot]
    /\ relocks = [t \in Threads |-> 0]
    /\ callsMade = 0
    /\ opsUsed = {}
    /\ oplog = << >>

\* The accounts of the demonstration; the bank's work queue is constructed and
\* left alone.
Init ==
    /\ AccountInit
    /\ QueueInit /\ maxSize = MaxCapacity
    /\ PoolInit
    /\ BankInit /\ generator = "counter"
    /\ AsyncInit
    /\ WrapperInit /\ enableAuditLogging

\* One step of the operation thread t runs.
Step(t) ==
    \/ DepositLock(t) \/ DepositBody(t)
    \/ WithdrawLock(t) \/ WithdrawBody(t)
    \/ TransferLock1(t) \/ TransferLock2(t) \/ TransferBody(t) \/ TransferIncoming(t)
    \/ AddTransactionLock(t) \/ AddTransactionPush(t)
    \/ ClearLock(t) \/ ClearBody(t)
    \/ Return(t)

Next == \E t \in Threads : Call(t) \/ Step(t)

Spec == Init /\ [][Next]_vars

\* Every thread that can run is scheduled, and every caller makes its calls.
FairSpec == Spec /\ \A t \in Threads : WF_vars(Call(t)) /\ WF_vars(Step(t))

\* One step of enqueue or dequeue in thread t.
QueueStep(t) ==
    \/ QueueLock(t)
    \/ EnqueueWait(t) \/ EnqueuePush(t)
    \/ DequeueWait(t) \/ DequeuePop(t)
    \/ QueueReturn(t)

\* A work queue used by producers and consumers; the accounts are constructed
\* empty and left alone.
QueueOnlyInit ==
    /\ QueueInit
    /\ AccountInit /\ initialBalance = [a \in Accounts |-> 0] /\ mutexImpl = "deadlock"
    /\ PoolInit
    /\ BankInit /\ generator = "counter"
    /\ AsyncInit
    /\ WrapperInit /\ enableAuditLogging

QueueNext == \E t \in QueueThreads : QueueCall(t) \/ QueueStep(t) \/ SpuriousWake(t)

QueueSpec == QueueOnlyInit /\ [][QueueNext]_vars

\* Every thread inside enqueue or dequeue that can run is scheduled.  A wait()
\* need not return without a notification, and no caller need call.
QueueFairSpec == QueueSpec /\ \A t \in QueueThreads : WF_vars(QueueStep(t))

\* One step of start, submitTask or stop in the client thread.
ClientStep == ClientLock \/ StartBody \/ SubmitBody \/ StopBody \/ StopNotify \/ StopJoin

\* One step of workerFunction in worker w.
WorkerStep(w) ==
    \/ WorkerLoop(w) \/ WorkerLock(w) \/ WorkerWait(w)
    \/ WorkerTake(w) \/ WorkerRun(w) \/ WorkerDone(w)

\* A thread pool with its workers and one client; the accounts and the work
\* queue are constructed and left alone.
PoolOnlyInit ==
    /\ PoolInit
    /\ AccountInit /\ initialBalance = [a \in Accounts |-> 0] /\ mutexImpl = "deadlock"
    /\ QueueInit /\ maxSize = MaxCapacity
    /\ BankInit /\ generator = "counter"
    /\ AsyncInit
    /\ WrapperInit /\ enableAuditLogging

PoolNext ==
    \/ PoolCall
    \/ ClientStep
    \/ \E w \in Workers : WorkerStep(w) \/ WorkerSpuriousWake(w)

PoolSpec == PoolOnlyInit /\ [][PoolNext]_vars

\* Every worker that can run is scheduled and every call of the client runs on.
\* A wait() need not return without a notification, and the client need not
\* call.
PoolFairSpec ==
    PoolSpec /\ WF_vars(ClientStep) /\ \A w \in Workers : WF_vars(WorkerStep(w))

\* One step of the bank operation thread t runs.
BankStep(t) ==
    \/ CreateCheck(t) \/ CreateGenerate(t) \/ CreateInsert(t)
    \/ CloseFind(t) \/ CloseBalanceLock(t) \/ CloseBalanceRead(t) \/ CloseErase(t)
    \/ GetAccount(t)
    \/ DepositGet(t) \/ BankDepositLock(t) \/ BankDepositBody(t) \/ BankRecord(t)
    \/ StatsTotal(t) \/ StatsOutcome(t) \/ WrapperReturn(t)
    \/ ReadAccounts(t)
    \/ ActiveLock(t) \/ ActiveVisit(t) \/ ActiveRead(t)
    \/ ClearAllData(t)

\* The bank alone: the threads call its operations; the build has linked one
\* generateAccountNumber and one behaviour of the relocked mutex.
BankOnlyInit ==
    /\ BankInit
    /\ AccountInit /\ initialBalance = [a \in Accounts |-> 0]
    /\ QueueInit /\ maxSize = MaxCapacity
    /\ PoolInit
    /\ AsyncInit
    /\ WrapperInit /\ enableAuditLogging

BankNext == \E t \in BankThreads : BankCall(t) \/ BankStep(t)

BankSpec == BankOnlyInit /\ [][BankNext]_vars

\* One step of a thread inside createAccount or a wrapper.
WrapperStep(t) ==
    \/ CreateCheck(t) \/ CreateGenerate(t) \/ CreateInsert(t)
    \/ DepositGet(t) \/ BankDepositLock(t) \/ BankDepositBody(t)
    \/ WithdrawGet(t) \/ BankWithdrawLock(t) \/ BankWithdrawBody(t)
    \/ TransferGetFrom(t) \/ TransferGetTo(t)
    \/ BankTransferLock1(t) \/ BankTransferLock2(t) \/ BankTransferBody(t)
    \/ BankRecord(t)
    \/ StatsTotal(t) \/ StatsOutcome(t) \/ WrapperReturn(t)

\* The wrappers alone: threads create accounts and call processDeposit,
\* processWithdraw and processTransfer; the build has linked one
\* generateAccountNumber and one behaviour of the relocked mutex; the
\* configuration is the default one, with audit logging enabled.
WrapperOnlyInit ==
    /\ BankInit
    /\ WrapperInit /\ enableAuditLogging
    /\ AccountInit /\ initialBalance = [a \in Accounts |-> 0]
    /\ QueueInit /\ maxSize = MaxCapacity
    /\ PoolInit
    /\ AsyncInit

WrapperNext == \E t \in BankThreads : WrapperCall(t) \/ WrapperStep(t)

WrapperSpec == WrapperOnlyInit /\ [][WrapperNext]_vars

\* One step of the thread inside startBankingSystem or processTransactionAsync.
AsyncStep ==
    \/ StartBankingSystem \/ AsyncSubmit \/ AsyncReturn
    \/ QueueLock(Client) \/ EnqueueWait(Client) \/ EnqueuePush(Client) \/ QueueReturn(Client)
    \/ ClientLock \/ StartBody \/ SubmitBody

\* The asynchronous path alone: the bank as constructed, with a work queue of
\* config.maxConcurrentTransactions entries and as many workers.
AsyncOnlyInit ==
    /\ AsyncInit
    /\ WrapperInit /\ enableAuditLogging
    /\ QueueInit /\ maxSize = MaxCapacity
    /\ PoolInit
    /\ AccountInit /\ initialBalance = [a \in Accounts |-> 0] /\ mutexImpl = "deadlock"
    /\ BankInit /\ generator = "counter"

AsyncNext ==
    \/ AsyncCall
    \/ AsyncStep
    \/ SpuriousWake(Client)
    \/ \E w \in Workers : WorkerStep(w) \/ WorkerSpuriousWake(w)

AsyncSpec == AsyncOnlyInit /\ [][AsyncNext]_vars

\* The caller runs on whenever it can, and so does every worker.  No wait()
\* need return without a notification, and nobody need call.
AsyncFairSpec ==
    AsyncSpec /\ WF_vars(AsyncStep) /\ \A w \in Workers : WF_vars(WorkerStep(w))

\* ================================================================ claims
\* The indices of the calls that have ended.
Ended == DOMAIN oplog

BalanceOps == {"deposit", "withdraw", "transfer"}

\* All calls of the run were made and have ended.
AllEnded == callsMade = MaxCalls /\ \A t \in Threads : pc[t] = "idle"

\* ---------------------------------------------------------------------- C1
\* C1: in every reachable state every account's balance is >= 0; a withdrawal
\* or transfer debit that would make it negative is refused.
C1_BalanceNeverNegative == \A a \in Accounts : balance[a] >= 0

\* A withdrawal or transfer of more than the balance has been refused.
C1_Witness ==
    \E i \in Ended :
        /\ oplog[i].op \in {"withdraw", "transfer"}
        /\ oplog[i].amount > oplog[i].bal0
        /\ oplog[i].result = "false"
        /\ balance[oplog[i].acct] >= 0

\* ---------------------------------------------------------------------- C2
\* The accounts whose lock guard the code of thread t is inside, by position.
NestedCall(t) == call[t].op \in BalanceOps

GuardedAccounts(t) ==
    LET c == call[t]
        own == IF c.op = "transfer" THEN {c.acct, c.tgt} ELSE {c.acct}
    IN  CASE pc[t] \in {"deposit_body", "withdraw_body", "clear_body",
                        "transfer_body", "transfer_incoming"} -> own
          [] pc[t] = "transfer_lock2" -> {FirstLocked(c.acct, c.tgt)}
          [] pc[t] = "addTransaction_lock" -> IF NestedCall(t) THEN own ELSE {}
          [] pc[t] = "addTransaction_push" ->
                IF NestedCall(t) THEN own \cup {addTo[t]} ELSE {addTo[t]}
          [] pc[t] = "return" -> IF c.op = "addTransaction" THEN {} ELSE own
          [] OTHER -> {}

\* C2: no two threads are inside the guarded section of the same account at
\* the same time, whichever of deposit, withdraw, transfer, addTransaction and
\* clearTransactionHistory they run.
C2_MutualExclusion ==
    \A t1, t2 \in Threads :
        t1 # t2 => GuardedAccounts(t1) \cap GuardedAccounts(t2) = {}

\* The mutex a thread is about to lock.
LockWanted(t) ==
    LET c == call[t]
    IN  CASE pc[t] \in {"deposit_lock", "withdraw_lock", "clear_lock"} -> {c.acct}
          [] pc[t] = "transfer_lock1" -> {FirstLocked(c.acct, c.tgt)}
          [] pc[t] = "transfer_lock2" -> {SecondLocked(c.acct, c.tgt)}
          [] pc[t] = "addTransaction_lock" -> {addTo[t]}
          [] OTHER -> {}

\* One thread has changed a balance inside its section while another thread
\* waits for the lock of that account.
C2_Witness ==
    \E t1, t2 \in Threads :
        /\ t1 # t2
        /\ pc[t1] \in {"addTransaction_lock", "addTransaction_push", "transfer_incoming"}
        /\ NestedCall(t1)
        /\ LockWanted(t2) \cap GuardedAccounts(t1) # {}
        /\ GuardedAccounts(t2) \cap GuardedAccounts(t1) = {}

\* ---------------------------------------------------------------------- C3
\* Every call made so far is a transfer between two distinct accounts.
TransfersOnly ==
    /\ opsUsed \subseteq {"transfer"}
    /\ \A t \in Threads : call[t].op = "transfer" => call[t].acct # call[t].tgt
    /\ \A i \in Ended : oplog[i].acct # oplog[i].tgt

\* Thread t runs a transfer and is about to lock one of its two mutexes.
TransferWaiting(t) == pc[t] \in {"transfer_lock1", "transfer_lock2"}

\* C3: concurrent transfers over distinct accounts never wait on each other's
\* account locks for ever: every transfer that asks for its locks eventually
\* holds both of them.
C3_TransferAcquiresBothLocks ==
    \A t \in Threads :
        (TransfersOnly /\ TransferWaiting(t))
            ~> (pc[t] = "transfer_body" \/ ~TransfersOnly)

\* ---------------------------------------------------------------------- C4
Total(f) == f[1] + f[2]

NoLockHeld == \A a \in Accounts : accountMutex[a].owner = NoThread

\* C4: when transfers between the two accounts are all that runs, the system
\* reaches a state where every transfer has ended (a state that is not
\* quiescent has a next step), and whenever no transfer holds a lock the sum of
\* the two balances is what it was before the transfers.
C4_TransfersQuiesceAndConserve ==
    TransfersOnly =>
        /\ NoLockHeld => Total(balance) = Total(initialBalance)
        /\ AllEnded \/ ENABLED Next

\* ---------------------------------------------------------------------- C5
RECURSIVE ReturnedSum(_, _, _)
\* The sum of the amounts of the first n ended calls of operation op on account
\* a that returned success.
ReturnedSum(n, op, a) ==
    IF n = 0 THEN 0
    ELSE ReturnedSum(n - 1, op, a)
         + (IF oplog[n].op = op /\ oplog[n].acct = a /\ oplog[n].result = "true"
            THEN oplog[n].amount ELSE 0)

DepositsAndWithdrawalsOnly == opsUsed \subseteq {"deposit", "withdraw"}

\* C5: once all deposits and withdrawals of a run have ended, the balance of an
\* account is its initial balance plus the deposits that returned success
\* minus the withdrawals that returned success.
C5_FinalBalance ==
    (AllEnded /\ DepositsAndWithdrawalsOnly) =>
        \A a \in Accounts :
            balance[a] = initialBalance[a]
                         + ReturnedSum(Len(oplog), "deposit", a)
                         - ReturnedSum(Len(oplog), "withdraw", a)

\* ---------------------------------------------------------------------- C6
\* The records a call appended to account a are exactly one SUCCESS record of
\* the call's operation and amount.
OneSuccessRecord(recs, e) ==
    /\ Len(recs) = 1
    /\ recs[1].status = "SUCCESS"
    /\ recs[1].amount = e.amount
    /\ recs[1].type = (CASE e.op = "deposit" -> "DEPOSIT"
                         [] e.op = "withdraw" -> "WITHDRAW"
                         [] OTHER -> "TRANSFER")

\* C6: every balance change of deposit, withdraw or transfer comes with exactly
\* one record in the history of the account it changed, appended under the
\* lock acquisition that covered the change (no second lock() on a mutex the
\* thread holds).
C6_ChangeHasOneRecord ==
    \A i \in Ended :
        LET e == oplog[i]
        IN  e.op \in BalanceOps =>
                /\ e.dSelf # 0 => OneSuccessRecord(e.newSelf, e) /\ e.relocks = 0
                /\ (e.op = "transfer" /\ e.dTgt # 0) =>
                        OneSuccessRecord(e.newTgt, e) /\ e.relocks = 0

\* ---------------------------------------------------------------------- C7
\* Thread t is inside deposit, withdraw or transfer and holds every lock the
\* operation takes at its start.
HoldsItsLocks(t) ==
    /\ call[t].op \in BalanceOps
    /\ pc[t] \in {"deposit_body", "withdraw_body", "transfer_body", "transfer_incoming",
                  "addTransaction_lock", "addTransaction_push", "return"}

\* C7: a deposit, withdraw or transfer that holds its locks always has a next
\* step, and it ends by returning a value.
C7_RunsToCompletion ==
    /\ \A t \in Threads : HoldsItsLocks(t) => ENABLED Step(t)
    /\ \A i \in Ended :
            (oplog[i].op \in BalanceOps /\ oplog[i].acct # oplog[i].tgt)
                => oplog[i].result \in {"true", "false"}

\* ---------------------------------------------------------------------- C8
\* C8: a withdraw of more than the balance returns failure, leaves the balance
\* as it was and appends exactly one INSUFFICIENT_FUNDS WITHDRAW record.
C8_OverdrawRefusedAndRecorded ==
    \A i \in Ended :
        LET e == oplog[i]
        IN  (e.op = "withdraw" /\ e.amount > e.bal0) =>
                /\ e.result = "false"
                /\ e.dSelf = 0
                /\ Len(e.newSelf) = 1
                /\ e.newSelf[1].status = "INSUFFICIENT_FUNDS"
                /\ e.newSelf[1].type = "WITHDRAW"

\* ---------------------------------------------------------------------- C9
\* C9: a deposit or withdraw with amount <= 0 returns failure and leaves the
\* balance and the history of the account as they were.
C9_InvalidAmountRejected ==
    \A i \in Ended :
        LET e == oplog[i]
        IN  (e.op \in {"deposit", "withdraw"} /\ e.amount <= 0) =>
                /\ e.result = "false"
                /\ e.dSelf = 0
                /\ e.newSelf = << >>

\* A deposit and a withdraw with amount <= 0 have both returned.
C9_Witness ==
    /\ \E i \in Ended : oplog[i].op = "deposit" /\ oplog[i].amount <= 0
                        /\ oplog[i].result = "false"
    /\ \E i \in Ended : oplog[i].op = "withdraw" /\ oplog[i].amount <= 0
                        /\ oplog[i].result = "false"

\* --------------------------------------------------------------------- C10
\* Every call of the run is a withdraw of amount amt from account a, each from
\* a thread of its own.
WithdrawalsOf(a, amt) ==
    /\ Len(oplog) = MaxCalls
    /\ \A i, j \in Ended : i # j => oplog[i].thread # oplog[j].thread
    /\ \A i \in Ended : /\ oplog[i].op = "withdraw"
                        /\ oplog[i].acct = a
                        /\ oplog[i].amount = amt

SuccessfulWithdrawRecords(a) ==
    { j \in DOMAIN transactionHistory[a] :
        /\ transactionHistory[a][j].type = "WITHDRAW"
        /\ transactionHistory[a][j].status = "SUCCESS" }

\* C10: n = MaxCalls concurrent withdrawals of amt from an account opened with
\* k * amt, 1 <= k <= n: exactly k succeed, n - k fail, the balance ends at 0 and
\* the history holds k SUCCESS withdrawal records.
C10_ExactlyKSucceed ==
    \A a \in Accounts : \A amt \in 1..MaxAmount : \A k \in 1..MaxCalls :
        (AllEnded /\ WithdrawalsOf(a, amt) /\ initialBalance[a] = k * amt) =>
            /\ Cardinality({i \in Ended : oplog[i].result = "true"}) = k
            /\ Cardinality({i \in Ended : oplog[i].result = "false"}) = MaxCalls - k
            /\ balance[a] = 0
            /\ Cardinality(SuccessfulWithdrawRecords(a)) = k

\* --------------------------------------------------------------------- C11
\* C11: a transfer of amount > 0 between two accounts, from a source whose
\* balance is >= amount, returns success, debits the source by amount, credits
\* the destination by amount and appends exactly one SUCCESS TRANSFER record to
\* each history, both with the same transaction id, the source as fromAccount
\* and the destination as toAccount.
C11_TransferMovesAndRecords ==
    \A i \in Ended :
        LET e == oplog[i]
        IN  (e.op = "transfer" /\ e.acct # e.tgt /\ e.amount > 0 /\ e.bal0 >= e.amount) =>
                /\ e.result = "true"
                /\ e.dSelf = -e.amount
                /\ e.dTgt = e.amount
                /\ OneSuccessRecord(e.newSelf, e)
                /\ OneSuccessRecord(e.newTgt, e)
                /\ e.newSelf[1].transactionId = e.newTgt[1].transactionId
                /\ \A r \in {e.newSelf[1], e.newTgt[1]} :
                        r.fromAccount = e.acct /\ r.toAccount = e.tgt

\* --------------------------------------------------------------------- C12
\* C12: a transfer between two accounts whose amount exceeds the source balance
\* returns failure, changes neither balance, appends exactly one
\* INSUFFICIENT_FUNDS TRANSFER record to the source's history and appends
\* nothing to the destination's history.
C12_TransferRefusedAndRecorded ==
    \A i \in Ended :
        LET e == oplog[i]
        IN  (e.op = "transfer" /\ e.acct # e.tgt /\ e.amount > 0 /\ e.amount > e.bal0) =>
                /\ e.result = "false"
                /\ e.dSelf = 0
                /\ e.dTgt = 0
                /\ Len(e.newSelf) = 1
                /\ e.newSelf[1].status = "INSUFFICIENT_FUNDS"
                /\ e.newSelf[1].type = "TRANSFER"
                /\ e.newTgt = << >>

\* --------------------------------------------------------------------- C13
\* A thread that is in no call owns no account mutex.
IdleOwnsNothing ==
    \A t \in Threads : pc[t] = "idle" =>
        \A a \in Accounts : accountMutex[a].owner # t

\* C13: a transfer with amount <= 0 returns failure, changes no balance and
\* appends no record to either account, and after a transfer has ended, on
\* whichever path, its thread holds neither account's lock.
C13_InvalidTransferRejected ==
    /\ \A i \in Ended :
            LET e == oplog[i]
            IN  (e.op = "transfer" /\ e.amount <= 0) =>
                    /\ e.result = "false"
                    /\ e.dSelf = 0 /\ e.dTgt = 0
                    /\ e.newSelf = << >> /\ e.newTgt = << >>
    /\ IdleOwnsNothing

\* --------------------------------------------------------------------- C14
\* Thread t runs a transfer from an account to itself.
SelfTransfer(t) == call[t].op = "transfer" /\ call[t].acct = call[t].tgt

\* C14: a transfer from an account to itself locks the account's mutex once:
\* it is never stopped at a lock() on the mutex it holds, and it ends by
\* returning a value without having locked a mutex it owned.
C14_SelfTransferLocksOnce ==
    /\ \A t \in Threads :
            (SelfTransfer(t) /\ pc[t] = "transfer_lock2") => ENABLED Step(t)
    /\ \A i \in Ended :
            (oplog[i].op = "transfer" /\ oplog[i].acct = oplog[i].tgt) =>
                /\ oplog[i].result \in {"true", "false"}
                /\ oplog[i].relocks = 0

\* --------------------------------------------------------------------- C15
\* The ended transfers that touched account a, as source or as destination.
AttemptedLegs(a) ==
    {i \in Ended : oplog[i].op = "transfer" /\ a \in {oplog[i].acct, oplog[i].tgt}}

\* C15 as stated: after a completed set of transfers between the two accounts,
\* the length of each history is the number of attempted transfer legs that
\* touched the account, failed attempts included.
C15_HistoryCountsAttempts ==
    (AllEnded /\ TransfersOnly) =>
        \A a \in Accounts :
            Len(transactionHistory[a]) = Cardinality(AttemptedLegs(a))

\* The ended transfers that left a record in the history of account a: those
\* that returned success, on both accounts, and those that returned failure for
\* an amount > 0, on the source.
RecordedLegs(a) ==
    {i \in AttemptedLegs(a) :
        \/ oplog[i].result = "true"
        \/ oplog[i].result = "false" /\ oplog[i].amount > 0 /\ oplog[i].acct = a}

\* C15 amended: after a completed set of transfers between the two accounts,
\* the length of each history is the number of records the account was
\* constructed with plus the number of its recorded legs.
C15_HistoryCountsRecordedLegs ==
    (AllEnded /\ TransfersOnly) =>
        \A a \in Accounts :
            Len(transactionHistory[a])
                = Len(InitialHistory(a, initialBalance[a], 0)) + Cardinality(RecordedLegs(a))

\* A completed run of one successful transfer and one refused for insufficient
\* funds: the source has both records, the destination the successful one.
C15_Witness ==
    /\ AllEnded /\ TransfersOnly
    /\ \E i, j \in Ended :
            /\ oplog[i].result = "true"
            /\ oplog[j].result = "false" /\ oplog[j].amount > 0
            /\ oplog[i].acct = oplog[j].acct
            /\ Cardinality(RecordedLegs(oplog[i].acct)) = 2
            /\ Cardinality(RecordedLegs(oplog[i].tgt)) = 1

\* --------------------------------------------------------------------- C16
\* C16: the work queue never holds more entries than maxSize, and a thread is
\* about to insert only while the queue holds fewer than maxSize entries: an
\* enqueue that found the queue full inserts after an entry has left it.
C16_NeverOverCapacity ==
    /\ Len(queue) <= maxSize
    /\ \A t \in QueueThreads : qpc[t] = "enqueue_push" => Len(queue) < maxSize

\* An enqueue that blocked on the full queue has inserted, and the queue is
\* full again.
C16_Witness ==
    \E t \in QueueThreads :
        /\ qpc[t] = "enqueue_return" /\ waited[t]
        /\ maxSize > 0 /\ Len(queue) = maxSize
        /\ removed # << >>

\* --------------------------------------------------------------------- C17
\* C17: the entries leave the queue in the order of their insertion: the
\* entries removed so far are the first of the inserted ones, in that order,
\* the queue holds the rest, and no entry has been removed twice.
C17_FifoAtMostOnce ==
    /\ Len(removed) <= Len(inserted)
    /\ removed = SubSeq(inserted, 1, Len(removed))
    /\ queue = SubSeq(inserted, Len(removed) + 1, Len(inserted))
    /\ \A i, j \in DOMAIN removed : i # j => removed[i] # removed[j]
    /\ \A t \in QueueThreads :
            qpc[t] = "dequeue_return" => qitem[t] = removed[Len(removed)]

\* Two producers have inserted their entries in the other order than they
\* called, and the entry inserted first has been removed while the other waits.
C17_Witness ==
    /\ Len(removed) = 1 /\ Len(queue) = 1
    /\ removed[1].work > queue[1].work

\* --------------------------------------------------------------------- C18
\* Thread t is blocked in the wait of dequeue / of enqueue.
ConsumerBlocked(t) == qpc[t] = "dequeue_blocked"

ProducerBlocked(t) == qpc[t] = "enqueue_blocked"

\* A dequeue takes an entry only from a queue that holds one, and what it
\* returns was inserted by an enqueue.
OnlyEnqueuedReturned ==
    /\ \A t \in QueueThreads : qpc[t] = "dequeue_pop" => HasEntry(queue)
    /\ \A i \in DOMAIN removed : \E j \in DOMAIN inserted : removed[i] = inserted[j]
    /\ \A t \in QueueThreads :
            qpc[t] = "dequeue_return" => \E j \in DOMAIN inserted : qitem[t] = inserted[j]

\* C18: a dequeue never returns an entry that was not enqueued and takes none
\* from an empty queue; a consumer blocked in dequeue while the queue holds an
\* entry eventually returns, unless other consumers empty the queue, and a
\* producer blocked in enqueue while the queue has room eventually returns,
\* unless other producers fill the queue (no lost wake-up).
C18_NoLostWakeUp ==
    /\ []OnlyEnqueuedReturned
    /\ \A t \in QueueThreads :
            /\ (ConsumerBlocked(t) /\ HasEntry(queue))
                    ~> (qpc[t] = "idle" \/ ~HasEntry(queue))
            /\ (ProducerBlocked(t) /\ HasRoom(queue, maxSize))
                    ~> (qpc[t] = "idle" \/ ~HasRoom(queue, maxSize))

\* A consumer that blocked on the empty queue returns an entry, and its dequeue
\* has woken a producer that blocked on the full queue.
C18_Witness ==
    \E c, p \in QueueThreads :
        /\ qpc[c] = "dequeue_return" /\ waited[c]
        /\ \E j \in DOMAIN inserted : inserted[j] = qitem[c]
        /\ qpc[p] = "enqueue_relock" /\ waited[p]
        /\ wakes = 0

\* --------------------------------------------------------------------- C19
\* A task has thrown what no handler catches: the process has ended.
ProcessTerminated == cpc = "terminated"

\* C19: in a pool that was constructed and then started, every task that
\* submitTask accepted is eventually executed by a worker, as long as stop is
\* not called (every task terminates).
C19_AcceptedTaskExecuted ==
    \A k \in 1..MaxPoolCalls :
        (k \in accepted /\ ~stopCalled)
            ~> (k \in executed \/ stopCalled \/ ProcessTerminated)

\* --------------------------------------------------------------------- C20
\* C20: no task that was in the queue when stop cleared running is executed
\* afterwards, and once stop has returned no worker is executing a task.
C20_StopAbandonsQueuedTasks ==
    /\ executed \cap queuedAtStop = {}
    /\ stopReturned => \A w \in Workers : wpc[w] \notin {"run", "done"}

\* --------------------------------------------------------------------- C21
\* The client is inside stop().
InStop == cpc \in {"stop_lock", "stop_body", "stop_notify", "stop_join"}

C22_SubmitChecksRunning ==
    [][(cpc = "submit_body" /\ cpc' = "idle") =>
            IF running
            THEN /\ cret' = "true"
                 /\ taskQueue \subseteq taskQueue'
                 /\ Cardinality(taskQueue') = Cardinality(taskQueue) + 1
            ELSE /\ cret' = "false"
                 /\ taskQueue' = taskQueue]_vars

\* A submitTask has been accepted while the pool ran, and after stop has
\* returned another one has been refused.
C22_Witness ==
    /\ accepted # {}
    /\ stopReturned /\ ~running
    /\ cpc = "idle" /\ cret = "false"

\* --------------------------------------------------------------------- C23
\* C23: after stop has returned, start makes the pool run again: a task that
\* is queued while the pool runs is eventually pulled and executed by a worker
\* (unless the pool is stopped again).
C23_RestartExecutes ==
    \A k \in 1..MaxPoolCalls :
        (stopReturned /\ running /\ k \in accepted /\ Task(k, 0) \in taskQueue)
            ~> (k \in executed \/ ~running \/ ProcessTerminated)

\* --------------------------------------------------------------------- C24
\* C24: whenever a worker takes a task from the queue, no task queued at that
\* moment was given a higher priority by its submitter.
C24_DispatchesHighestPriority ==
    [][\A w \in Workers :
            (wpc[w] = "take" /\ wpc'[w] = "run" /\ wtask'[w] # NoTask) =>
                \A y \in taskQueue : wanted[wtask'[w].id] >= wanted[y.id]]_vars

\* --------------------------------------------------------------------- C25
\* C25: a task that raises a failure, of whatever kind, does not end the worker
\* that ran it: no worker is ever terminated by what a task threw.
C25_TaskFailureContained ==
    \A w \in Workers : wpc[w] # "terminated"

\* --------------------------------------------------------------------- C26
\* Thread t owns the mutex of an account, or is at the call that acquires one.
TakesAccountLock(t) ==
    \/ \E o \in Objects : olock[o] = t
    \/ bpc[t] \in {"close_balance_lock", "deposit_lock"}
    \/ bpc[t] = "active_visit" /\ remaining[t] # {}

\* Thread t is at a call that acquires accountsMutex.
TakesCoarseLock(t) ==
    bpc[t] \in {"create_check", "create_insert", "close_find", "get_account", "deposit_get",
                "total_accounts", "all_accounts", "active_lock", "clear_all"}

\* C26: no thread acquires or holds the lock of an account while it holds the
\* coarse lock of the registry, and no thread acquires the coarse lock while
\* it holds the lock of an account.
C26_NoLockUnderCoarseLock ==
    \A t \in BankThreads :
        /\ accountsMutex = t => ~TakesAccountLock(t)
        /\ (\E o \in Objects : olock[o] = t) => ~TakesCoarseLock(t)

\* --------------------------------------------------------------------- C27
\* C27: closeAccount on an account whose balance is not zero returns failure
\* and leaves the mapping unchanged; on an account whose balance is zero it
\* returns success, and every getAccount for that number made after it reports
\* the account absent.
C27_CloseByBalance ==
    /\ [](\A e \in closeLog :
            IF e.saw # 0 THEN e.result = "false" /\ ~e.erased
            ELSE e.result = "true" /\ e.erased)
    /\ [][\A t \in BankThreads :
            (bpc[t] = "get_account" /\ bpc'[t] = "idle" /\ bcall[t].number \in closedNumbers)
                => bret'[t] = "nullptr"]_vars

\* --------------------------------------------------------------------- C28
\* C28: whenever an account leaves the mapping of the registry, its balance is
\* zero at that moment, whichever operation removes it and whatever deposits
\* other threads make through the handles they hold.
C28_RemovedAtZeroBalance == \A r \in removals : r.balance = 0

\* --------------------------------------------------------------------- C29
\* C29: the number of accounts in the registry never exceeds the configured
\* maximum, also when several threads call createAccount at once.
C29_NeverOverMaxAccounts == Cardinality(DOMAIN accounts) <= MaxAccounts

\* --------------------------------------------------------------------- C30
\* C30: every createAccount that succeeds returns a number no earlier
\* createAccount returned, and its insert replaces no account of the mapping.
C30_NumbersUnique ==
    /\ \A p, q \in issued : p[1] = q[1] => p = q
    /\ replaced = {}

\* --------------------------------------------------------------------- C31
TerminalStatuses == {"SUCCESS", "FAILED", "INSUFFICIENT_FUNDS"}

\* C31: every record in the history of an account carries a terminal status
\* (SUCCESS, FAILED or INSUFFICIENT_FUNDS), whatever its origin: deposit,
\* withdrawal, transfer or the initial deposit of the constructor.
C31_RecordsHaveTerminalStatus ==
    \A a \in Accounts : \A i \in DOMAIN transactionHistory[a] :
        transactionHistory[a][i].status \in TerminalStatuses

\* --------------------------------------------------------------------- C32
Wrappers == {"processDeposit", "processWithdraw", "processTransfer"}

\* Thread t is inside a wrapper.
InWrapper(t) == bcall[t].op \in Wrappers /\ bpc[t] # "idle"

\* C32: every call of a wrapper adds one to the total counter and one to the
\* successful or the failed counter, by the value it returns, and no increment
\* is lost: total = successful + failed whenever no wrapper call is in progress,
\* and total >= successful + failed in every state.
C32_CountersMatchCalls ==
    /\ totalTransactions >= successfulTransactions + failedTransactions
    /\ (\A t \in BankThreads : ~InWrapper(t)) =>
            /\ totalTransactions = wdone.success + wdone.failure + wdone.exception
            /\ successfulTransactions = wdone.success
            /\ failedTransactions = wdone.failure
            /\ totalTransactions = successfulTransactions + failedTransactions

\* --------------------------------------------------------------------- C33
\* The lookup thread t is about to make finds an account of its call missing.
FindsAbsent(t) ==
    \/ bpc[t] \in {"deposit_get", "withdraw_get"} /\ bcall[t].number \notin DOMAIN accounts
    \/ bpc[t] = "transfer_get_to" /\ (bobj[t] = NoObject \/ btarget[t] \notin DOMAIN accounts)

\* The positions of a thread inside an operation of Account.
AccountLabels ==
    {"deposit_lock", "deposit_body", "withdraw_lock", "withdraw_body",
     "transfer_lock1", "transfer_lock2", "transfer_body", "record"}

\* C33: a deposit, withdraw or transfer of the registry that names an account
\* absent from the mapping returns failure without calling any operation of
\* Account or the transfer protocol, and changes no balance and no history.
C33_AbsentAccountFails ==
    [][\A t \in BankThreads :
            (FindsAbsent(t) /\ bpc'[t] # bpc[t]) =>
                /\ bret'[t] = "false"
                /\ bpc'[t] \notin AccountLabels
                /\ obalance' = obalance /\ orecords' = orecords /\ olock' = olock]_vars

\* A transfer from an account of the mapping to a number that is not in it has
\* returned false.
C33_Witness ==
    \E t \in BankThreads :
        /\ bcall[t].op = "processTransfer" /\ bpc[t] = "idle" /\ bret[t] = "false"
        /\ bobj[t] # NoObject /\ bobj2[t] = NoObject

\* --------------------------------------------------------------------- C34
\* C34: with audit logging enabled, every deposit, withdraw or transfer of the
\* registry that completes invokes the audit hook once, whether it succeeded or
\* failed.
C34_AuditedOncePerOperation ==
    [][\A t \in BankThreads :
            (enableAuditLogging /\ InWrapper(t) /\ bpc'[t] = "idle") => baudit'[t] = 1]_vars

\* --------------------------------------------------------------------- C35
\* Sequence s is the beginning of sequence r.
IsPrefix(s, r) == Len(s) <= Len(r) /\ \A i \in DOMAIN s : r[i] = s[i]

\* C35: the history of an account is append-only: a record in the history
\* stays there, at its position, whatever public operations are called.
C35_HistoryAppendOnly ==
    [][\A a \in Accounts : IsPrefix(transactionHistory[a], transactionHistory'[a])]_vars

\* --------------------------------------------------------------------- C36
\* C36: in a transfer between two distinct accounts the lock of the account
\* with the smaller number is acquired before the lock of the other one,
\* whichever of the two is the source.
C36_SmallerNumberLockedFirst ==
    \A t \in Threads :
        (call[t].op = "transfer" /\ call[t].acct # call[t].tgt) =>
            LET lo == IF call[t].acct < call[t].tgt THEN call[t].acct ELSE call[t].tgt
                hi == IF call[t].acct < call[t].tgt THEN call[t].tgt ELSE call[t].acct
            IN  /\ pc[t] = "transfer_lock1" => accountMutex[lo].owner # t /\ accountMutex[hi].owner # t
                /\ pc[t] = "transfer_lock2" => accountMutex[lo].owner = t /\ accountMutex[hi].owner # t
                /\ pc[t] = "transfer_body" => accountMutex[lo].owner = t /\ accountMutex[hi].owner = t

\* A transfer in each direction is between its two locks, so one waits.
C36_Witness ==
    \E t, u \in Threads :
        /\ call[t].op = "transfer" /\ call[t].acct < call[t].tgt
        /\ call[u].op = "transfer" /\ call[u].acct > call[u].tgt
        /\ pc[t] = "transfer_lock2" /\ pc[u] = "transfer_lock1"

\* --------------------------------------------------------------------- C37
\* C37: no worker holds the pool's lock while it executes a task, so a running
\* task blocks neither submit nor the dispatch of the other workers on it.
C37_TaskRunsOutsidePoolLock ==
    \A w \in Workers : wpc[w] = "run" => poolMutex # w

\* One worker runs a task while the client, inside submitTask, owns the lock
\* and the other worker is about to ask for it.
C37_Witness ==
    \E w, v \in Workers :
        /\ wpc[w] = "run" /\ wtask[w] # NoTask
        /\ cpc = "submit_body" /\ poolMutex = Client
        /\ wpc[v] \in {"lock", "relock"}

\* --------------------------------------------------------------------- C38
\* The workers that hold a task they popped.
Holding == {w \in Workers : wpc[w] \in {"run", "done"} /\ wtask[w] # NoTask}

\* C38: a task accepted by submit is executed at most once: no two workers pop
\* the same task, and a task that has run is neither queued nor about to run.
C38_ExecutedAtMostOnce ==
    ProcessTerminated \/
        /\ \A w, v \in Holding : w # v => wtask[w].id # wtask[v].id
        /\ \A x \in taskQueue : x.id \notin executed /\ \A w \in Holding : wtask[w].id # x.id
        /\ \A w \in Holding : wpc[w] = "run" => wtask[w].id \notin executed

\* Two tasks have run, and a third is in the hands of a worker.
C38_Witness == Cardinality(executed) >= 2 /\ \E w \in Holding : wpc[w] = "run"

\* --------------------------------------------------------------------- C39
\* The workers between the pop of a task (line 104) and the decrement of
\* line 118.
BusyWorkers == {w \in Workers : wpc[w] \in {"run", "done"}}

\* C39: the activeThreads counter equals the number of workers that have
\* popped a task and not yet finished with it; it is never below zero and
\* never above the number of workers.
C39_ActiveThreadsCountsBusyWorkers ==
    ProcessTerminated \/
        /\ activeThreads = Cardinality(BusyWorkers)
        /\ \A w \in BusyWorkers : wtask[w] # NoTask
        /\ activeThreads >= 0
        /\ activeThreads <= Cardinality(Workers)

\* Both workers run a task at once.
C39_Witness == activeThreads = 2 /\ \A w \in Workers : wpc[w] = "run"

\* --------------------------------------------------------------------- C40
\* The caller is inside processTransactionAsync.
InAsync == apc \in {"enqueue", "submit"}

\* C40: every call of processTransactionAsync made while the system is running
\* returns in the end, however many calls were made before it.
C40_AsyncCallReturns == InAsync ~> (apc = "idle" \/ ProcessTerminated)

====
